---- MODULE Spec2Model ----
(***************************************************************************)
(* Site-adapter registry, built-in adapters and account orchestration of   *)
(* one-api-hub, as a state machine.                                        *)
(*                                                                         *)
(* Strings are sequences of one-character strings, so that trimming,       *)
(* lower-casing and suffix tests are computed and not assumed.             *)
(***************************************************************************)
EXTENDS Integers, Sequences, FiniteSets, TLC

(***************************************************************************)
(* Bounds of the model.                                                    *)
(***************************************************************************)
\* getInstance() calls counted before the counter saturates
MaxGetInstanceCalls == 3
\* registerAdapter() calls made on the registry after the built-ins
MaxRegisterCalls == 3

(***************************************************************************)
(* JavaScript values: a string, undefined or null.                         *)
(***************************************************************************)
JsString(s) == [kind |-> "string", chars |-> s]
JsUndefined == [kind |-> "undefined", chars |-> <<>>]
JsNull == [kind |-> "null", chars |-> <<>>]

\* (v || ""): a falsy value (undefined, null, the empty string) gives ""
OrEmpty(v) == IF v.kind = "string" /\ v.chars # <<>> THEN v.chars ELSE <<>>

Whitespace == {" ", "\t", "\n"}

UpperLetters ==
  <<"A","B","C","D","E","F","G","H","I","J","K","L","M",
    "N","O","P","Q","R","S","T","U","V","W","X","Y","Z">>

LowerLetters ==
  <<"a","b","c","d","e","f","g","h","i","j","k","l","m",
    "n","o","p","q","r","s","t","u","v","w","x","y","z">>

toLowerCaseChar(c) ==
  IF \E i \in 1..Len(UpperLetters) : UpperLetters[i] = c
  THEN LowerLetters[CHOOSE i \in 1..Len(UpperLetters) : UpperLetters[i] = c]
  ELSE c

\* String.prototype.toLowerCase
toLowerCase(s) ==
  IF s = <<>> THEN <<>> ELSE [i \in 1..Len(s) |-> toLowerCaseChar(s[i])]

RECURSIVE trimStart(_)
trimStart(s) ==
  IF s = <<>> THEN <<>>
  ELSE IF Head(s) \in Whitespace THEN trimStart(Tail(s)) ELSE s

RECURSIVE trimEnd(_)
trimEnd(s) ==
  IF s = <<>> THEN <<>>
  ELSE IF s[Len(s)] \in Whitespace THEN trimEnd(SubSeq(s, 1, Len(s) - 1)) ELSE s

\* String.prototype.trim
trim(s) == trimEnd(trimStart(s))

\* s.replace(/\/+$/, ""): drops every trailing slash
RECURSIVE stripTrailingSlashes(_)
stripTrailingSlashes(s) ==
  IF s = <<>> THEN <<>>
  ELSE IF s[Len(s)] = "/" THEN stripTrailingSlashes(SubSeq(s, 1, Len(s) - 1)) ELSE s

\* String.prototype.endsWith
endsWith(s, suffix) ==
  /\ Len(s) >= Len(suffix)
  /\ SubSeq(s, Len(s) - Len(suffix) + 1, Len(s)) = suffix

\* String.prototype.startsWith
startsWith(s, prefix) ==
  /\ Len(s) >= Len(prefix)
  /\ SubSeq(s, 1, Len(prefix)) = prefix

(***************************************************************************)
(* JavaScript Map: entries in insertion order; set() on a present key      *)
(* replaces the value in place.                                            *)
(***************************************************************************)
MapHas(m, k) == \E i \in 1..Len(m) : m[i].key = k

MapGet(m, k) == m[CHOOSE i \in 1..Len(m) : m[i].key = k].value

MapSet(m, k, v) ==
  IF MapHas(m, k)
  THEN [i \in 1..Len(m) |-> IF m[i].key = k THEN [key |-> k, value |-> v] ELSE m[i]]
  ELSE Append(m, [key |-> k, value |-> v])

MapValues(m) == IF m = <<>> THEN <<>> ELSE [i \in 1..Len(m) |-> m[i].value]

MapKeys(m) == IF m = <<>> THEN <<>> ELSE [i \in 1..Len(m) |-> m[i].key]

Range(seq) == {seq[i] : i \in 1..Len(seq)}

\* const x = v; F(x): v is evaluated once and its value handed to F
Bind(v, F(_)) == CHOOSE r \in {F(x) : x \in {v}} : TRUE

(***************************************************************************)
(* Adapters.  An adapter object is an index into AdapterPool; two objects  *)
(* may carry the same metadata.id.  methods is the set of optional         *)
(* operations the object implements; siteStatus says how getSiteStatus     *)
(* behaves: "network" (OneApi: fetchSiteStatus, never throws), "hostname"  *)
(* (Cubence: pure hostname test), "any" (a third-party probe that may      *)
(* return a status, return null or throw).                                 *)
(***************************************************************************)
NoAdapter == 0

Capabilities ==
  {"AUTO_DETECT", "BALANCE", "USAGE_STATS", "TOKEN_MANAGEMENT", "MODEL_LIST",
   "MODEL_PRICING"}

TokenCrudMethods ==
  {"getApiTokens", "createApiToken", "updateApiToken", "deleteApiToken"}

Adapter(id, types, caps, methods, status) ==
  [id |-> id, supportedSiteTypes |-> types, capabilities |-> caps,
   methods |-> methods \cup {"validateConnection"}, siteStatus |-> status]

OneApiAdapter ==
  Adapter(<<"o","n","e","-","a","p","i">>,
          << <<"o","n","e","-","a","p","i">>,
             <<"n","e","w","-","a","p","i">>,
             <<"v","e","l","o","e","r","a">>,
             <<"o","n","e","-","h","u","b">>,
             <<"d","o","n","e","-","h","u","b">> >>,
          Capabilities,
          {"getAccountBalance", "getUsageStats", "autoDetectAccount",
           "getOrCreateAccessToken", "getAvailableModels", "getModelPricing",
           "getSiteStatus"} \cup TokenCrudMethods,
          "network")

CubenceAdapter ==
  Adapter(<<"c","u","b","e","n","c","e">>,
          << <<"c","u","b","e","n","c","e">> >>,
          {"AUTO_DETECT", "BALANCE", "USAGE_STATS"},
          {"autoDetectAccount", "getAccountBalance", "getUsageStats", "getSiteStatus"},
          "hostname")

\* the method a capability needs, one adapter lacking each
RequiredMethods(cap) ==
  CASE cap = "AUTO_DETECT" -> {"autoDetectAccount"}
    [] cap = "BALANCE" -> {"getAccountBalance"}
    [] cap = "USAGE_STATS" -> {"getUsageStats"}
    [] cap = "TOKEN_MANAGEMENT" -> TokenCrudMethods
    [] cap = "MODEL_LIST" -> {"getAvailableModels"}
    [] cap = "MODEL_PRICING" -> {"getModelPricing"}

LackingAdapter(cap, method) ==
  Adapter(<<"m","x">>, << <<"m","x">> >>, {cap}, RequiredMethods(cap) \ {method}, "none")

\* third-party adapters offered to registerAdapter
ThirdPartyAdapters ==
  << Adapter(<<"a","x">>, << <<" ","A","X"," ">> >>, {"BALANCE", "TOKEN_MANAGEMENT"},
             {"getAccountBalance", "getSiteStatus"} \cup TokenCrudMethods, "any"),
     Adapter(<<"a","x">>, << <<"b","x">> >>, {}, {}, "none"),
     Adapter(<<"c","x">>, << <<"c","x">>, <<"A","x">> >>, {"USAGE_STATS", "AUTO_DETECT"},
             {"getUsageStats", "autoDetectAccount", "getSiteStatus"}, "any"),
     Adapter(<<>>, << <<"d","x">> >>, {}, {}, "none"),
     Adapter(<<"f","x">>, << <<"f","x">>, <<"F","X"," ">> >>, {}, {}, "none"),
     Adapter(<<"g","x">>, << <<"C","u","b","e","n","c","e"," ">> >>, {}, {"getSiteStatus"}, "any"),
     LackingAdapter("AUTO_DETECT", "autoDetectAccount"),
     LackingAdapter("BALANCE", "getAccountBalance"),
     LackingAdapter("USAGE_STATS", "getUsageStats"),
     LackingAdapter("TOKEN_MANAGEMENT", "getApiTokens"),
     LackingAdapter("TOKEN_MANAGEMENT", "createApiToken"),
     LackingAdapter("TOKEN_MANAGEMENT", "updateApiToken"),
     LackingAdapter("TOKEN_MANAGEMENT", "deleteApiToken"),
     LackingAdapter("MODEL_LIST", "getAvailableModels"),
     LackingAdapter("MODEL_PRICING", "getModelPricing"),
     Adapter(<<"h","x">>, << <<"i","x">> >>, {}, {"getSiteStatus"}, "any") >>

AdapterPool == <<OneApiAdapter, CubenceAdapter>> \o ThirdPartyAdapters

OneApi == 1
Cubence == 2
AdapterIds == 1..Len(AdapterPool)
ThirdParty == {a \in AdapterIds : a > Cubence}

(***************************************************************************)
(* SiteAdapterRegistry                                                     *)
(***************************************************************************)
\* a registry as the constructor leaves it
NewRegistry ==
  [adaptersById |-> <<>>, adaptersBySiteType |-> <<>>, builtInsRegistered |-> FALSE]

\* normalizeSiteType without toLowerCase()
normalizeSiteType_NoLowerCase(siteType) == trim(OrEmpty(siteType))

normalizeSiteType(siteType) == toLowerCase(trim(OrEmpty(siteType)))

normalizeSiteUrl(siteUrl) == stripTrailingSlashes(trim(OrEmpty(siteUrl)))

\* assertCapabilitiesImplemented testing three of the four token methods
assertCapabilitiesImplemented_ThreeOfFour(a) ==
  LET caps == AdapterPool[a].capabilities
      m == AdapterPool[a].methods
      has(cap) == cap \in caps
  IN IF has("AUTO_DETECT") /\ "autoDetectAccount" \notin m THEN "AUTO_DETECT"
     ELSE IF has("BALANCE") /\ "getAccountBalance" \notin m THEN "BALANCE"
     ELSE IF has("USAGE_STATS") /\ "getUsageStats" \notin m THEN "USAGE_STATS"
     ELSE IF /\ has("TOKEN_MANAGEMENT")
             /\ \/ "getApiTokens" \notin m
                \/ "createApiToken" \notin m
                \/ "updateApiToken" \notin m
          THEN "TOKEN_MANAGEMENT"
     ELSE IF has("MODEL_LIST") /\ "getAvailableModels" \notin m THEN "MODEL_LIST"
     ELSE IF has("MODEL_PRICING") /\ "getModelPricing" \notin m THEN "MODEL_PRICING"
     ELSE "ok"

\* "ok", or the capability whose method is missing (AdapterRegistrationError)
assertCapabilitiesImplemented(a) ==
  LET caps == AdapterPool[a].capabilities
      m == AdapterPool[a].methods
      has(cap) == cap \in caps
  IN IF has("AUTO_DETECT") /\ "autoDetectAccount" \notin m THEN "AUTO_DETECT"
     ELSE IF has("BALANCE") /\ "getAccountBalance" \notin m THEN "BALANCE"
     ELSE IF has("USAGE_STATS") /\ "getUsageStats" \notin m THEN "USAGE_STATS"
     ELSE IF /\ has("TOKEN_MANAGEMENT")
             /\ \/ "getApiTokens" \notin m
                \/ "createApiToken" \notin m
                \/ "updateApiToken" \notin m
                \/ "deleteApiToken" \notin m
          THEN "TOKEN_MANAGEMENT"
     ELSE IF has("MODEL_LIST") /\ "getAvailableModels" \notin m THEN "MODEL_LIST"
     ELSE IF has("MODEL_PRICING") /\ "getModelPricing" \notin m THEN "MODEL_PRICING"
     ELSE "ok"

\* the loop over supportedSiteTypes skipping a claimed site type instead of throwing
RECURSIVE registerSiteTypes_SkipClaimed(_, _, _)
registerSiteTypes_SkipClaimed(bySiteType, a, i) ==
  IF i > Len(AdapterPool[a].supportedSiteTypes)
  THEN [map |-> bySiteType, outcome |-> "return", error |-> "none"]
  ELSE LET normalized == normalizeSiteType(JsString(AdapterPool[a].supportedSiteTypes[i]))
       IN IF MapHas(bySiteType, normalized)
          THEN registerSiteTypes_SkipClaimed(bySiteType, a, i + 1)
          ELSE Bind(MapSet(bySiteType, normalized, a),
                    LAMBDA m : registerSiteTypes_SkipClaimed(m, a, i + 1))

\* the loop over supportedSiteTypes, from entry i on
RECURSIVE registerSiteTypes(_, _, _)
registerSiteTypes(bySiteType, a, i) ==
  IF i > Len(AdapterPool[a].supportedSiteTypes)
  THEN [map |-> bySiteType, outcome |-> "return", error |-> "none"]
  ELSE LET normalized == normalizeSiteType(JsString(AdapterPool[a].supportedSiteTypes[i]))
       IN IF MapHas(bySiteType, normalized)
          THEN [map |-> bySiteType, outcome |-> "AdapterRegistrationError",
                error |-> "site-type"]
          ELSE Bind(MapSet(bySiteType, normalized, a),
                    LAMBDA m : registerSiteTypes(m, a, i + 1))

Thrown(reg, error) ==
  [reg |-> reg, outcome |-> "AdapterRegistrationError", error |-> error]

\* registerAdapter without the test for an id that is already registered
registerAdapter_NoDuplicateIdCheck(reg, a) ==
  LET adapterId == AdapterPool[a].id
  IN IF adapterId = <<>> THEN Thrown(reg, "empty-id")
     ELSE IF assertCapabilitiesImplemented(a) # "ok" THEN Thrown(reg, "capability")
     ELSE Bind(registerSiteTypes(reg.adaptersBySiteType, a, 1),
               LAMBDA types :
                 [reg |-> [reg EXCEPT
                             !.adaptersById = MapSet(reg.adaptersById, adapterId, a),
                             !.adaptersBySiteType = types.map],
                  outcome |-> types.outcome, error |-> types.error])

registerAdapter(reg, a) ==
  LET adapterId == AdapterPool[a].id
  IN IF adapterId = <<>> THEN Thrown(reg, "empty-id")
     ELSE IF assertCapabilitiesImplemented(a) # "ok" THEN Thrown(reg, "capability")
     ELSE IF MapHas(reg.adaptersById, adapterId) THEN Thrown(reg, "duplicate-id")
     ELSE Bind(registerSiteTypes(reg.adaptersBySiteType, a, 1),
               LAMBDA types :
                 [reg |-> [reg EXCEPT
                             !.adaptersById = MapSet(reg.adaptersById, adapterId, a),
                             !.adaptersBySiteType = types.map],
                  outcome |-> types.outcome, error |-> types.error])

getAdapter(reg, siteType) ==
  LET normalized == normalizeSiteType(siteType)
  IN IF MapHas(reg.adaptersBySiteType, normalized)
     THEN MapGet(reg.adaptersBySiteType, normalized)
     ELSE NoAdapter

getAllAdapters(reg) == MapValues(reg.adaptersById)

\* ensureBuiltInAdaptersRegistered without the builtInsRegistered test
ensureBuiltInAdaptersRegistered_NoFlag(reg) ==
  Bind(registerAdapter([reg EXCEPT !.builtInsRegistered = TRUE], OneApi),
       LAMBDA r1 :
         IF r1.outcome # "return"
         THEN [reg |-> r1.reg, outcome |-> r1.outcome,
               calls |-> << <<OneApi, r1.outcome>> >>]
         ELSE Bind(registerAdapter(r1.reg, Cubence),
                   LAMBDA r2 :
                     [reg |-> r2.reg, outcome |-> r2.outcome,
                      calls |-> << <<OneApi, r1.outcome>>,
                                   <<Cubence, r2.outcome>> >>]))

\* calls: the registerAdapter calls made, as <<adapter, outcome>>
ensureBuiltInAdaptersRegistered(reg) ==
  IF reg.builtInsRegistered
  THEN [reg |-> reg, outcome |-> "return", calls |-> <<>>]
  ELSE Bind(registerAdapter([reg EXCEPT !.builtInsRegistered = TRUE], OneApi),
            LAMBDA r1 :
              IF r1.outcome # "return"
              THEN [reg |-> r1.reg, outcome |-> r1.outcome,
                    calls |-> << <<OneApi, r1.outcome>> >>]
              ELSE Bind(registerAdapter(r1.reg, Cubence),
                        LAMBDA r2 :
                          [reg |-> r2.reg, outcome |-> r2.outcome,
                           calls |-> << <<OneApi, r1.outcome>>,
                                        <<Cubence, r2.outcome>> >>]))

\* static getInstance(): inst says whether the static instance exists
getInstance(inst, reg) ==
  Bind(ensureBuiltInAdaptersRegistered(IF inst THEN reg ELSE NewRegistry),
       LAMBDA r : [reg |-> r.reg, outcome |-> r.outcome, calls |-> r.calls,
                   created |-> IF inst THEN 0 ELSE 1])

\* assertAdapterCapability without the test of the declared capabilities
assertAdapterCapability_NullOnly(a, capability) ==
  IF a = NoAdapter THEN "NotSupportedError" ELSE "return"

\* "return" or "NotSupportedError"
assertAdapterCapability(a, capability) ==
  IF a = NoAdapter THEN "NotSupportedError"
  ELSE IF capability \notin AdapterPool[a].capabilities THEN "NotSupportedError"
  ELSE "return"

(***************************************************************************)
(* Site URLs and the getSiteStatus probes                                  *)
(***************************************************************************)
Https == <<"h","t","t","p","s",":","/","/">>
CubenceCom == <<"c","u","b","e","n","c","e",".","c","o","m">>
DotCubenceCom == <<".">> \o CubenceCom

UrlDelimiters == {"/", "?", "#", ":"}

RECURSIVE takeHost(_)
takeHost(s) ==
  IF s = <<>> \/ Head(s) \in UrlDelimiters THEN <<>>
  ELSE <<Head(s)>> \o takeHost(Tail(s))

Http == <<"h","t","t","p",":","/","/">>

\* new URL(siteUrl).hostname.toLowerCase(); <<>> stands for the TypeError
\* new URL throws on input that has no scheme or no host.  The URL parser
\* drops blanks around its input
urlHostname(siteUrl) ==
  LET s == trim(siteUrl)
      rest == IF startsWith(s, Https) THEN SubSeq(s, Len(Https) + 1, Len(s))
              ELSE IF startsWith(s, Http) THEN SubSeq(s, Len(Http) + 1, Len(s))
              ELSE <<>>
  IN toLowerCase(takeHost(rest))

\* getSiteStatus taking every host that ends with the text cubence.com
CubenceGetSiteStatus_NoDot(siteUrl) ==
  LET host == urlHostname(siteUrl)
  IN IF host # <<>> /\ (host = CubenceCom \/ endsWith(host, CubenceCom))
     THEN [detected |-> TRUE, host |-> host]
     ELSE [detected |-> FALSE, host |-> <<>>]

\* CubenceAdapter.getSiteStatus: {detected, host} or null; the TypeError is caught
CubenceGetSiteStatus(siteUrl) ==
  LET host == urlHostname(siteUrl)
  IN IF host # <<>> /\ (host = CubenceCom \/ endsWith(host, DotCubenceCom))
     THEN [detected |-> TRUE, host |-> host]
     ELSE [detected |-> FALSE, host |-> <<>>]

\* site URLs handed to detectSiteType
SiteUrlInputs ==
  { JsString(Https \o <<"f","o","o">> \o DotCubenceCom \o <<"/","/">>),
    JsString(<<" ">> \o Https \o <<"C","U","B","E","N","C","E",".","c","o","m">> \o <<" ">>),
    JsString(Https \o <<"n","o","t">> \o CubenceCom),
    JsString(Https \o <<"a","p","i",".","e","x",".","i","o">> \o <<"/">>),
    JsString(<<>>),
    JsUndefined }

\* what awaiting adapter.getSiteStatus(url) can give: "truthy", "falsy", "throw"
ProbeOutcomes(a, url) ==
  CASE AdapterPool[a].siteStatus = "network" -> {"truthy", "falsy"}
    [] AdapterPool[a].siteStatus = "hostname" ->
         IF CubenceGetSiteStatus(url).detected THEN {"truthy"} ELSE {"falsy"}
    [] AdapterPool[a].siteStatus = "any" -> {"truthy", "falsy", "throw"}
    [] OTHER -> {}

\* detectSiteType's loop from entry i on, up to the next await: the index of
\* the next adapter that has getSiteStatus, or 0 when the loop ends
RECURSIVE nextProbe(_, _)
nextProbe(adapters, i) ==
  IF i > Len(adapters) THEN 0
  ELSE IF "getSiteStatus" \notin AdapterPool[adapters[i]].methods
       THEN nextProbe(adapters, i + 1)
       ELSE i

IdleDetect ==
  [pc |-> "idle", url |-> <<>>, adapters |-> <<>>, idx |-> 0, log |-> <<>>,
   settled |-> "pending", result |-> <<>>]

\* detectSiteType(siteUrl) up to its first await, or to its return
detectSiteTypeStart(reg, siteUrl) ==
  LET url == normalizeSiteUrl(siteUrl)
      adapters == getAllAdapters(reg)
      i == nextProbe(adapters, 1)
  IN IF i = 0
     THEN [IdleDetect EXCEPT !.pc = "done", !.url = url, !.adapters = adapters,
                             !.settled = "resolved"]
     ELSE [IdleDetect EXCEPT !.pc = "await", !.url = url, !.adapters = adapters,
                             !.idx = i]

\* detectSiteType without the try/catch around the probe: a throwing probe
\* rejects the call
detectSiteTypeResume_NoCatch(d, outcome) ==
  LET logged == [d EXCEPT !.log = Append(@, <<d.adapters[d.idx], outcome>>)]
      i == nextProbe(d.adapters, d.idx + 1)
  IN IF outcome = "truthy"
     THEN [logged EXCEPT !.pc = "done", !.settled = "resolved",
                         !.result = AdapterPool[d.adapters[d.idx]].id]
     ELSE IF outcome = "throw"
          THEN [logged EXCEPT !.pc = "done", !.settled = "rejected", !.idx = 0]
     ELSE IF i = 0
          THEN [logged EXCEPT !.pc = "done", !.settled = "resolved", !.idx = 0]
          ELSE [logged EXCEPT !.idx = i]

\* detectSiteType resumed with the probe's outcome, up to the next await or return
detectSiteTypeResume(d, outcome) ==
  LET logged == [d EXCEPT !.log = Append(@, <<d.adapters[d.idx], outcome>>)]
      i == nextProbe(d.adapters, d.idx + 1)
  IN IF outcome = "truthy"
     THEN [logged EXCEPT !.pc = "done", !.settled = "resolved",
                         !.result = AdapterPool[d.adapters[d.idx]].id]
     ELSE IF i = 0
          THEN [logged EXCEPT !.pc = "done", !.settled = "resolved", !.idx = 0]
          ELSE [logged EXCEPT !.idx = i]

(***************************************************************************)
(* Remote answers, as the built-in adapters read them.  A text is a        *)
(* sequence of chunks, so that `${a}: ${b}` is concatenation and the empty  *)
(* string is <<>>.  A JavaScript value is a record with a kind.            *)
(***************************************************************************)
JsNumber(n) == [kind |-> "number", num |-> n]
\* a number that is no integer: num / den, den positive
JsDecimal(n, d) == [kind |-> "number", num |-> n, den |-> d]
\* Math.round(v * factor): the integer nearest to it, the greater of two
MathRound(v, factor) ==
  LET den == IF "den" \in DOMAIN v THEN v.den ELSE 1
  IN (2 * v.num * factor + den) \div (2 * den)
JsBoolean(b) == [kind |-> "boolean", bool |-> b]
\* an array, by its length and the sums of its items' fields
JsArray(n) == [kind |-> "array", length |-> n, quota |-> 5 * n,
               prompt_tokens |-> 3 * n, completion_tokens |-> 2 * n]

\* !!v
Truthy(v) ==
  CASE v.kind \in {"undefined", "null"} -> FALSE
    [] v.kind = "string" -> v.chars # <<>>
    [] v.kind = "number" -> v.num # 0
    [] v.kind = "boolean" -> v.bool
    [] OTHER -> TRUE

\* v is null or undefined: reading a property of it throws TypeError
Nullish(v) == v.kind \in {"undefined", "null"}

\* v.field of a value that is not nullish; a missing property is undefined
Prop(v, field) ==
  IF v.kind = "object" /\ field \in DOMAIN v THEN v[field] ELSE JsUndefined

\* (v || fallback) for a text v
OrElse(v, fallback) == IF Truthy(v) THEN v.chars ELSE fallback

\* what a call or an await gives: a value, or a thrown error
Return(data) ==
  [outcome |-> "return", data |-> data, error |-> [name |-> "none", message |-> <<>>]]

Throw(name, message) ==
  [outcome |-> "throw", data |-> JsUndefined, error |-> [name |-> name, message |-> message]]

\* error instanceof Error ? error.message : "未知错误"
ErrorMessage(error) ==
  IF error.name \in {"Error", "TypeError", "SyntaxError", "ApiError"}
  THEN error.message
  ELSE <<"unknown error">>

\* the JSON envelope {success, message, data} of the one-api family
Envelope(success, message, data) ==
  [kind |-> "object", success |-> JsBoolean(success), message |-> message, data |-> data]

\* a body response.json() cannot parse
Unparseable == [kind |-> "unparseable"]

UserSelf(username, access_token, quota) ==
  [kind |-> "object", id |-> JsNumber(42), username |-> username,
   access_token |-> access_token, quota |-> quota]

Alice == JsString(<<"alice">>)
Token == JsString(<<"sk-1">>)

\* response bodies a site can give, by the endpoint asked
Bodies(endpoint) ==
  CASE endpoint = "/api/user/self" ->
         { Unparseable, JsNull,
           Envelope(FALSE, JsString(<<"not logged in">>), JsUndefined),
           Envelope(TRUE, JsUndefined, JsUndefined),
           Envelope(TRUE, JsUndefined, JsNull),
           Envelope(TRUE, JsUndefined, UserSelf(Alice, Token, JsNumber(7))),
           Envelope(TRUE, JsUndefined, UserSelf(Alice, JsString(<<>>), JsUndefined)),
           Envelope(TRUE, JsUndefined, UserSelf(JsUndefined, Token, JsNumber(0))) }
    [] endpoint = "/api/user/token" ->
         { Envelope(FALSE, JsUndefined, JsUndefined),
           Envelope(TRUE, JsUndefined, JsString(<<"sk-2">>)),
           Envelope(TRUE, JsUndefined, JsString(<<>>)) }
    [] endpoint = "/api/status" ->
         { Unparseable,
           Envelope(FALSE, JsUndefined, JsUndefined),
           Envelope(TRUE, JsUndefined, [kind |-> "object", price |-> JsNumber(7)]),
           Envelope(TRUE, JsUndefined, [kind |-> "object", price |-> JsNumber(0),
                                        stripe_unit_price |-> JsNumber(8)]),
           Envelope(TRUE, JsUndefined, [kind |-> "object", PaymentUSDRate |-> JsNumber(9)]),
           Envelope(TRUE, JsUndefined, [kind |-> "object", price |-> JsNumber(0)]) }
    [] endpoint = "/api/log/self" ->
         { Envelope(FALSE, JsUndefined, JsUndefined),
           Envelope(TRUE, JsUndefined, JsNull) }
         \cup { Envelope(TRUE, JsUndefined,
                         [kind |-> "object", items |-> items, total |-> total]) :
                  items \in {JsUndefined, JsArray(100)},
                  total \in {JsUndefined, JsNumber(100), JsNumber(250), JsNumber(10001)} }
    [] endpoint = "/api/token" ->
         { Envelope(FALSE, JsUndefined, JsUndefined),
           Envelope(TRUE, JsUndefined, JsNull),
           Envelope(TRUE, JsUndefined, JsString(<<"none">>)),
           Envelope(TRUE, JsUndefined, JsArray(2)),
           Envelope(TRUE, JsUndefined, [kind |-> "object", items |-> JsArray(1)]),
           Envelope(TRUE, JsUndefined, [kind |-> "object", items |-> JsUndefined]) }
    [] endpoint \in {"POST /api/token", "PUT /api/token", "DELETE /api/token"} ->
         { Unparseable, JsNull,
           Envelope(FALSE, JsUndefined, JsUndefined),
           Envelope(FALSE, JsString(<<"quota exceeded">>), JsUndefined),
           Envelope(TRUE, JsUndefined, JsUndefined) }
    [] endpoint = "/api/user/models" ->
         { Envelope(FALSE, JsUndefined, JsUndefined),
           Envelope(TRUE, JsUndefined, JsNull),
           Envelope(TRUE, JsUndefined, [kind |-> "object"]),
           Envelope(TRUE, JsUndefined, JsArray(3)) }
    [] endpoint = "/api/pricing" ->
         { Unparseable, JsNull,
           Envelope(FALSE, JsUndefined, JsUndefined),
           Envelope(TRUE, JsUndefined, JsArray(3)) }
    [] endpoint = "/api/v1/dashboard/overview" ->
         { Unparseable, JsNull,
           [kind |-> "object", success |-> JsBoolean(FALSE)],
           [kind |-> "object", success |-> JsBoolean(TRUE)],
           [kind |-> "object", success |-> JsBoolean(TRUE), data |-> [kind |-> "object"]],
           [kind |-> "object", success |-> JsBoolean(TRUE),
            data |-> [kind |-> "object",
                      user |-> [kind |-> "object", username |-> JsString(<<>>)],
                      balance |-> [kind |-> "object", total_balance_dollar |-> JsNumber(3)]]],
           [kind |-> "object", success |-> JsBoolean(TRUE),
            data |-> [kind |-> "object",
                      user |-> [kind |-> "object", username |-> Alice],
                      balance |-> [kind |-> "object",
                                   total_balance_dollar |-> JsDecimal(7, 2)]]],
           [kind |-> "object", success |-> JsBoolean(TRUE),
            data |-> [kind |-> "object",
                      balance |-> [kind |-> "object", total_balance |-> JsNull,
                                   total_balance_dollar |-> JsDecimal(3, 2000000)]]],
           [kind |-> "object", success |-> JsBoolean(TRUE),
            data |-> [kind |-> "object",
                      user |-> [kind |-> "object", username |-> Alice],
                      balance |-> [kind |-> "object", total_balance |-> JsNumber(5),
                                   total_balance_dollar |-> JsNumber(3)]]] }
    [] endpoint = "/api/v1/analytics/today" ->
         { Unparseable, JsNull,
           [kind |-> "object", code |-> JsNumber(500), message |-> JsString(<<"busy">>)],
           [kind |-> "object", code |-> JsNumber(200)],
           [kind |-> "object", code |-> JsString(<<"500">>), data |-> [kind |-> "object"]],
           [kind |-> "object", data |-> [kind |-> "object"]],
           [kind |-> "object", code |-> JsString(<<"200">>),
            data |-> [kind |-> "object", today_consumed_quota |-> JsNumber(4)]],
           [kind |-> "object", code |-> JsNumber(200),
            data |-> [kind |-> "object", today_consumed_quota |-> JsNumber(4),
                      today_request_count |-> JsNumber(2), today_tokens |-> JsNumber(6)]] }

\* what awaiting fetch(url) can give: a rejection, or a response with a status
\* and a body
HttpAnswers(endpoint) ==
  { [kind |-> "reject", status |-> 0, body |-> Unparseable] }
  \cup { [kind |-> "response", status |-> s, body |-> Unparseable] : s \in {401, 500} }
  \cup { [kind |-> "response", status |-> 200, body |-> b] : b \in Bodies(endpoint) }

\* what awaiting chrome.runtime.sendMessage(message) can give: a rejection,
\* undefined, or the handler's {success, error, data}
Replies(action, endpoint) ==
  { [kind |-> "reject"], JsUndefined,
    [kind |-> "object", success |-> JsBoolean(FALSE)],
    [kind |-> "object", success |-> JsBoolean(FALSE), error |-> JsString(<<>>)],
    [kind |-> "object", success |-> JsBoolean(FALSE), error |-> JsString(<<"tab closed">>)],
    [kind |-> "object", success |-> JsBoolean(TRUE)] }
  \cup IF action = "autoDetectSite"
       THEN { [kind |-> "object", success |-> JsBoolean(TRUE), data |-> d] :
                d \in { [kind |-> "object"],
                        [kind |-> "object", userId |-> JsNumber(0)],
                        [kind |-> "object", userId |-> JsNumber(42)] } }
       ELSE { [kind |-> "object", success |-> JsBoolean(TRUE), data |-> d] :
                d \in (Bodies(endpoint) \ {Unparseable}) \cup {JsNull} }

(***************************************************************************)
(* apiService: the HTTP helpers of the one-api family, each as a function   *)
(* of the answer its fetch gets.                                           *)
(***************************************************************************)
DEFAULT_PAGE_SIZE == 100
MAX_PAGES == 100

\* response.ok
ResponseOk(answer) ==
  answer.kind = "response" /\ answer.status >= 200 /\ answer.status <= 299

\* new ApiError(message, statusCode); the errors Throw makes carry no statusCode
ApiError(message, statusCode) ==
  [name |-> "ApiError", message |-> message, statusCode |-> statusCode]

\* const response = await fetch(...); if (!response.ok) throw new ApiError(...);
\* await response.json()
fetchAndParse(answer) ==
  IF answer.kind = "reject" THEN Throw("TypeError", <<"Failed to ", "fetch">>)
  ELSE IF ~ResponseOk(answer)
       THEN [Throw("ApiError", <<>>) EXCEPT
               !.error = ApiError(<<"request failed: ", ToString(answer.status)>>,
                                  answer.status)]
  ELSE IF answer.body.kind = "unparseable"
       THEN Throw("SyntaxError", <<"Unexpected token in JSON">>)
  ELSE Return(answer.body)

apiRequest(answer) ==
  LET r == fetchAndParse(answer)
  IN IF r.outcome = "throw" THEN r
     ELSE IF Nullish(r.data)
          THEN Throw("TypeError", <<"Cannot read properties of null">>)
     ELSE IF ~Truthy(Prop(r.data, "success")) \/ Prop(r.data, "data").kind = "undefined"
          THEN Throw("ApiError", <<"response data format error">>)
     ELSE Return(Prop(r.data, "data"))

\* fetchUserInfo: {id, username, access_token: access_token || null}
fetchUserInfo(answer) ==
  LET r == apiRequest(answer)
  IN IF r.outcome = "throw" THEN r
     ELSE IF Nullish(r.data)
          THEN Throw("TypeError", <<"Cannot read properties of null">>)
     ELSE Return([kind |-> "object", id |-> Prop(r.data, "id"),
                  username |-> Prop(r.data, "username"),
                  access_token |-> IF Truthy(Prop(r.data, "access_token"))
                                   THEN Prop(r.data, "access_token") ELSE JsNull])

createAccessToken(answer) == apiRequest(answer)

\* fetchSiteStatus: the status data, or null on any failure
fetchSiteStatus(answer) ==
  LET r == fetchAndParse(answer)
  IN IF r.outcome = "throw" THEN JsNull
     ELSE IF Nullish(r.data) THEN JsNull
     ELSE IF ~Truthy(Prop(r.data, "success")) \/ ~Truthy(Prop(r.data, "data")) THEN JsNull
     ELSE Prop(r.data, "data")

extractDefaultExchangeRate(statusInfo) ==
  IF ~Truthy(statusInfo) THEN JsNull
  ELSE IF Truthy(Prop(statusInfo, "price")) /\ Prop(statusInfo, "price").num > 0
       THEN Prop(statusInfo, "price")
  ELSE IF /\ Truthy(Prop(statusInfo, "stripe_unit_price"))
          /\ Prop(statusInfo, "stripe_unit_price").num > 0
       THEN Prop(statusInfo, "stripe_unit_price")
  ELSE IF /\ Truthy(Prop(statusInfo, "PaymentUSDRate"))
          /\ Prop(statusInfo, "PaymentUSDRate").num > 0
       THEN Prop(statusInfo, "PaymentUSDRate")
  ELSE JsNull

\* fetchAccountQuota: userData.quota || 0
fetchAccountQuota(answer) ==
  LET r == apiRequest(answer)
  IN IF r.outcome = "throw" THEN r
     ELSE IF Nullish(r.data)
          THEN Throw("TypeError", <<"Cannot read properties of null">>)
     ELSE Return(IF Truthy(Prop(r.data, "quota")) THEN Prop(r.data, "quota") ELSE JsNumber(0))

\* validateAccountConnection without its try/catch
validateAccountConnection_NoCatch(answer) ==
  LET r == fetchAccountQuota(answer)
  IN IF r.outcome = "throw" THEN r ELSE Return(JsBoolean(TRUE))

\* validateAccountConnection: true when fetchAccountQuota returned, false when it threw
validateAccountConnection(answer) ==
  LET r == fetchAccountQuota(answer)
  IN IF r.outcome = "throw" THEN Return(JsBoolean(FALSE)) ELSE Return(JsBoolean(TRUE))

\* Math.ceil(n / d) for n >= 0, d > 0
Ceil(n, d) == (n + d - 1) \div d

\* fetchTodayUsagePage stopping one page late: currentPage > totalPages
fetchTodayUsagePage_OffByOne(usage, answer) ==
  LET r == apiRequest(answer)
      items == IF Truthy(Prop(r.data, "items")) THEN Prop(r.data, "items") ELSE JsArray(0)
      total == IF Truthy(Prop(r.data, "total")) THEN Prop(r.data, "total").num ELSE 0
      sums == [usage EXCEPT !.today_quota_consumption = @ + items.quota,
                            !.today_prompt_tokens = @ + items.prompt_tokens,
                            !.today_completion_tokens = @ + items.completion_tokens,
                            !.today_requests_count = @ + items.length]
  IN IF r.outcome = "throw" THEN r
     ELSE IF Nullish(r.data)
          THEN Throw("TypeError", <<"Cannot read properties of null">>)
     ELSE IF usage.page > Ceil(total, DEFAULT_PAGE_SIZE)
          THEN Return([sums EXCEPT !.more = FALSE])
     ELSE Return([sums EXCEPT !.page = @ + 1, !.more = usage.page + 1 <= MAX_PAGES])

\* fetchTodayUsagePage with the loop's test one page late:
\* currentPage <= MAX_PAGES + 1
fetchTodayUsagePage_CapLate(usage, answer) ==
  LET r == apiRequest(answer)
      items == IF Truthy(Prop(r.data, "items")) THEN Prop(r.data, "items") ELSE JsArray(0)
      total == IF Truthy(Prop(r.data, "total")) THEN Prop(r.data, "total").num ELSE 0
      sums == [usage EXCEPT !.today_quota_consumption = @ + items.quota,
                            !.today_prompt_tokens = @ + items.prompt_tokens,
                            !.today_completion_tokens = @ + items.completion_tokens,
                            !.today_requests_count = @ + items.length]
  IN IF r.outcome = "throw" THEN r
     ELSE IF Nullish(r.data)
          THEN Throw("TypeError", <<"Cannot read properties of null">>)
     ELSE IF usage.page >= Ceil(total, DEFAULT_PAGE_SIZE)
          THEN Return([sums EXCEPT !.more = FALSE])
     ELSE Return([sums EXCEPT !.page = @ + 1, !.more = usage.page + 1 <= MAX_PAGES + 1])

\* one turn of fetchTodayUsage's loop, given the answer to the request of page
\* usage.page: the sums and the page after it, and whether the loop goes on
fetchTodayUsagePage(usage, answer) ==
  LET r == apiRequest(answer)
      items == IF Truthy(Prop(r.data, "items")) THEN Prop(r.data, "items") ELSE JsArray(0)
      total == IF Truthy(Prop(r.data, "total")) THEN Prop(r.data, "total").num ELSE 0
      sums == [usage EXCEPT !.today_quota_consumption = @ + items.quota,
                            !.today_prompt_tokens = @ + items.prompt_tokens,
                            !.today_completion_tokens = @ + items.completion_tokens,
                            !.today_requests_count = @ + items.length]
  IN IF r.outcome = "throw" THEN r
     ELSE IF Nullish(r.data)
          THEN Throw("TypeError", <<"Cannot read properties of null">>)
     ELSE IF usage.page >= Ceil(total, DEFAULT_PAGE_SIZE)
          THEN Return([sums EXCEPT !.more = FALSE])
     ELSE Return([sums EXCEPT !.page = @ + 1, !.more = usage.page + 1 <= MAX_PAGES])

\* fetchAccountTokens: the token list, by its length
fetchAccountTokens(answer) ==
  LET r == apiRequest(answer)
  IN IF r.outcome = "throw" THEN r
     ELSE IF r.data.kind = "array" THEN Return(r.data)
     ELSE IF Truthy(r.data) /\ r.data.kind = "object" /\ "items" \in DOMAIN r.data
          THEN Return(IF Truthy(Prop(r.data, "items")) THEN Prop(r.data, "items")
                      ELSE JsArray(0))
     ELSE Return(JsArray(0))

\* createApiToken, updateApiToken, deleteApiToken: only success is required
writeApiToken(answer, fallback) ==
  LET r == fetchAndParse(answer)
  IN IF r.outcome = "throw" THEN r
     ELSE IF Nullish(r.data)
          THEN Throw("TypeError", <<"Cannot read properties of null">>)
     ELSE IF ~Truthy(Prop(r.data, "success"))
          THEN Throw("ApiError", OrElse(Prop(r.data, "message"), fallback))
     ELSE Return(JsBoolean(TRUE))

fetchAvailableModels(answer) == apiRequest(answer)

fetchModelPricing(answer) ==
  LET r == fetchAndParse(answer)
  IN IF r.outcome = "throw" THEN r
     ELSE IF Nullish(r.data)
          THEN Throw("TypeError", <<"Cannot read properties of null">>)
     ELSE IF ~Truthy(Prop(r.data, "success"))
          THEN Throw("ApiError", <<"fetching pricing failed">>)
     ELSE Return(r.data)

\* utils/autoDetectUtils.analyzeAutoDetectError: classifies a message or a
\* thrown error into a detailedError object; it returns for every input
analyzeAutoDetectError(error) == [kind |-> "object", classified |-> error]

(***************************************************************************)
(* An adapter operation in flight.  requests and messages count the HTTP    *)
(* requests and the extension messages issued so far; remote is the last    *)
(* answer received.                                                        *)
(***************************************************************************)
IdleCall ==
  [adapter |-> NoAdapter, op |-> "none", auth |-> "none", pc |-> "idle",
   requests |-> 0, messages |-> 0, settled |-> "none",
   value |-> [kind |-> "none"], error |-> [name |-> "none", message |-> <<>>],
   remote |-> [kind |-> "none"], read |-> "none",
   usage |-> [page |-> 0, more |-> FALSE, today_quota_consumption |-> 0,
              today_prompt_tokens |-> 0, today_completion_tokens |-> 0,
              today_requests_count |-> 0],
   userId |-> JsUndefined, tokenPc |-> "none", statusPc |-> "none",
   tokenInfo |-> [username |-> JsUndefined, access_token |-> JsUndefined],
   siteStatus |-> JsNull]

\* the promise of the operation resolves / rejects
Resolve(c, value) == [c EXCEPT !.pc = "done", !.settled = "resolved", !.value = value]
Reject(c, error) == [c EXCEPT !.pc = "done", !.settled = "rejected", !.error = error]

\* return await f(): the operation settles as f did
Settle(c, r) == IF r.outcome = "throw" THEN Reject(c, r.error) ELSE Resolve(c, r.data)

\* fetch(url) is issued and awaited
Request(c, endpoint) == [c EXCEPT !.pc = endpoint, !.requests = @ + 1]

\* chrome.runtime.sendMessage({action}) is issued and awaited
SendMessage(c, action) == [c EXCEPT !.pc = action, !.messages = @ + 1]

ValidateResult(ok, message, details) ==
  [ok |-> ok, message |-> message, details |-> details]

AutoDetectFailure(error, detailedError) ==
  [success |-> FALSE, error |-> JsString(error), detailedError |-> detailedError,
   data |-> JsUndefined]

(***************************************************************************)
(* OneApiAdapter                                                           *)
(***************************************************************************)
OneApiKindError == <<"one-api adapter requires ", "one-api-token", " auth">>

\* the request each operation of OneApiAdapter makes first
OneApiEndpoint(op) ==
  CASE op \in {"validateConnection", "getAccountBalance"} -> "/api/user/self"
    [] op = "getUsageStats" -> "/api/log/self"
    [] op = "getApiTokens" -> "/api/token"
    [] op = "createApiToken" -> "POST /api/token"
    [] op = "updateApiToken" -> "PUT /api/token"
    [] op = "deleteApiToken" -> "DELETE /api/token"
    [] op = "getAvailableModels" -> "/api/user/models"
    [] op = "getModelPricing" -> "/api/pricing"

\* OneApiAdapter with deleteApiToken lacking its auth.kind test
OneApiStart_DeleteUnguarded(op, credentials) ==
  LET c == [IdleCall EXCEPT !.adapter = OneApi, !.op = op, !.auth = credentials.auth,
                            !.settled = "pending"]
  IN IF op = "autoDetectAccount"
     THEN IF trim(credentials.siteUrl) = <<>>
          THEN Resolve(c, AutoDetectFailure(<<"site url must not be empty">>, JsUndefined))
          ELSE SendMessage(c, "autoDetectSite")
     ELSE IF credentials.auth # "one-api-token" /\ op # "deleteApiToken"
          THEN IF op = "validateConnection"
               THEN Resolve(c, ValidateResult(FALSE, JsString(OneApiKindError), JsUndefined))
               ELSE Reject(c, [name |-> "Error", message |-> OneApiKindError])
     ELSE Request([c EXCEPT !.usage.page = IF op = "getUsageStats" THEN 1 ELSE 0],
                  OneApiEndpoint(op))

\* an operation of OneApiAdapter, from its call to its first await or its return
OneApiStart(op, credentials) ==
  LET c == [IdleCall EXCEPT !.adapter = OneApi, !.op = op, !.auth = credentials.auth,
                            !.settled = "pending"]
  IN IF op = "autoDetectAccount"
     THEN IF trim(credentials.siteUrl) = <<>>
          THEN Resolve(c, AutoDetectFailure(<<"site url must not be empty">>, JsUndefined))
          ELSE SendMessage(c, "autoDetectSite")
     ELSE IF credentials.auth # "one-api-token"
          THEN IF op = "validateConnection"
               THEN Resolve(c, ValidateResult(FALSE, JsString(OneApiKindError), JsUndefined))
               ELSE Reject(c, [name |-> "Error", message |-> OneApiKindError])
     ELSE Request([c EXCEPT !.usage.page = IF op = "getUsageStats" THEN 1 ELSE 0],
                  OneApiEndpoint(op))

\* a credentialed operation of OneApiAdapter resumed with the answer to its request
OneApiAnswer(c, answer) ==
  LET d == [c EXCEPT !.remote = answer]
  IN CASE c.op = "validateConnection" ->
            LET ok == validateAccountConnection(answer)
            IN IF ok.outcome = "throw" THEN Reject(d, ok.error)
               ELSE IF Truthy(ok.data)
                    THEN Resolve(d, ValidateResult(TRUE, JsUndefined, JsUndefined))
               ELSE Resolve(d, ValidateResult(FALSE,
                      JsString(<<"account connection validation failed">>), JsUndefined))
       [] c.op = "getAccountBalance" ->
            LET r == fetchAccountQuota(answer)
            IN IF r.outcome = "throw" THEN Reject(d, r.error)
               ELSE Resolve(d, [rawBalance |-> r.data.num, rawUnit |-> "quota_points",
                                conversionFactor |-> 500000,
                                balanceUSD |-> <<r.data.num, 500000>>])
       [] c.op = "getUsageStats" ->
            LET r == fetchTodayUsagePage(c.usage, answer)
            IN IF r.outcome = "throw" THEN Reject(d, r.error)
               ELSE IF r.data.more
                    THEN Request([d EXCEPT !.usage = r.data], "/api/log/self")
               ELSE Resolve([d EXCEPT !.usage = r.data],
                            [rawConsumption |-> r.data.today_quota_consumption,
                             rawUnit |-> "quota_points", conversionFactor |-> 500000,
                             promptTokens |-> r.data.today_prompt_tokens,
                             completionTokens |-> r.data.today_completion_tokens,
                             requestCount |-> r.data.today_requests_count])
       [] c.op = "getApiTokens" -> Settle(d, fetchAccountTokens(answer))
       [] c.op = "createApiToken" ->
            Settle(d, writeApiToken(answer, <<"creating the token failed">>))
       [] c.op = "updateApiToken" ->
            Settle(d, writeApiToken(answer, <<"updating the token failed">>))
       [] c.op = "deleteApiToken" ->
            Settle(d, writeApiToken(answer, <<"deleting the token failed">>))
       [] c.op = "getAvailableModels" ->
            LET r == fetchAvailableModels(answer)
            IN IF r.outcome = "throw" THEN Reject(d, r.error)
               ELSE IF r.data.kind # "array"
                    THEN Reject(d, [name |-> "TypeError",
                                    message |-> <<"models.map is not a function">>])
               ELSE Resolve(d, r.data)
       [] c.op = "getModelPricing" -> Settle(d, fetchModelPricing(answer))

\* autoDetectAccount's catch block rethrowing the error
OneApiAutoDetectCatch_Rethrow(c, error) == Reject(c, error)

\* the catch block of OneApiAdapter.autoDetectAccount
OneApiAutoDetectCatch(c, error) ==
  Resolve(c, AutoDetectFailure(<<"auto detect failed: ">> \o ErrorMessage(error),
                               analyzeAutoDetectError(error)))

\* autoDetectAccount resumed with the reply to its autoDetectSite message
OneApiReply(c, reply) ==
  LET d == [c EXCEPT !.remote = reply]
      data == Prop(reply, "data")
  IN IF reply.kind = "reject"
     THEN OneApiAutoDetectCatch(d, [name |-> "Error",
                                    message |-> <<"Could not establish connection">>])
     ELSE IF Nullish(reply)
          THEN OneApiAutoDetectCatch(d, [name |-> "TypeError",
                                         message |-> <<"Cannot read properties of undefined">>])
     ELSE IF ~Truthy(Prop(reply, "success"))
          THEN Resolve(d, AutoDetectFailure(
                 OrElse(Prop(reply, "error"),
                        <<"auto detect failed, enter the data by hand or log in on the site">>),
                 analyzeAutoDetectError(
                   JsString(OrElse(Prop(reply, "error"), <<"auto detect failed">>)))))
     ELSE IF Nullish(data)
          THEN OneApiAutoDetectCatch(d, [name |-> "TypeError",
                                         message |-> <<"Cannot read properties of undefined">>])
     ELSE IF ~Truthy(Prop(data, "userId"))
          THEN Resolve(d, AutoDetectFailure(<<"cannot get the user id">>,
                 analyzeAutoDetectError(JsString(<<"cannot get the user id">>))))
     ELSE [d EXCEPT !.pc = "Promise.all", !.userId = Prop(data, "userId"),
                    !.requests = @ + 2, !.tokenPc = "/api/user/self",
                    !.statusPc = "/api/status"]

\* Promise.all([getOrCreateAccessToken, fetchSiteStatus]) once a member has
\* fulfilled: with both fulfilled autoDetectAccount runs to its return
OneApiAutoDetectJoin(c) ==
  IF c.tokenPc # "fulfilled" \/ c.statusPc # "fulfilled" THEN c
  ELSE IF ~Truthy(c.tokenInfo.username) \/ ~Truthy(c.tokenInfo.access_token)
       THEN Resolve(c, AutoDetectFailure(<<"could not get the username or the access token">>,
              analyzeAutoDetectError(
                JsString(<<"could not get the username or the access token">>))))
  ELSE Resolve(c, [success |-> TRUE, error |-> JsUndefined, detailedError |-> JsUndefined,
                   data |-> [kind |-> "object", username |-> c.tokenInfo.username,
                             accessToken |-> c.tokenInfo.access_token,
                             userId |-> JsString(<<ToString(c.userId.num)>>),
                             exchangeRate |-> extractDefaultExchangeRate(c.siteStatus)]])

\* getOrCreateAccessToken resumed with the answer to its pending request
OneApiTokenAnswer(c, answer) ==
  IF c.tokenPc = "/api/user/self"
  THEN LET userInfo == fetchUserInfo(answer)
       IN IF userInfo.outcome = "throw"
          THEN OneApiAutoDetectCatch([c EXCEPT !.tokenPc = "rejected"], userInfo.error)
          ELSE IF ~Truthy(userInfo.data.access_token)
               THEN [c EXCEPT !.tokenPc = "/api/user/token", !.requests = @ + 1,
                              !.tokenInfo.username = userInfo.data.username]
          ELSE OneApiAutoDetectJoin(
                 [c EXCEPT !.tokenPc = "fulfilled",
                           !.tokenInfo = [username |-> userInfo.data.username,
                                          access_token |-> userInfo.data.access_token]])
  ELSE LET accessToken == createAccessToken(answer)
       IN IF accessToken.outcome = "throw"
          THEN OneApiAutoDetectCatch([c EXCEPT !.tokenPc = "rejected"], accessToken.error)
          ELSE OneApiAutoDetectJoin([c EXCEPT !.tokenPc = "fulfilled",
                                              !.tokenInfo.access_token = accessToken.data])

\* fetchSiteStatus without its try and catch: a request that fails, or an
\* answer that is no status, rejects it
OneApiStatusAnswer_NoCatch(c, answer) ==
  IF fetchSiteStatus(answer) = JsNull
  THEN OneApiAutoDetectCatch([c EXCEPT !.statusPc = "rejected"],
                             [name |-> "Error", message |-> <<"no site status">>])
  ELSE OneApiAutoDetectJoin([c EXCEPT !.statusPc = "fulfilled",
                                      !.siteStatus = fetchSiteStatus(answer)])

\* fetchSiteStatus resumed with the answer to its request
OneApiStatusAnswer(c, answer) ==
  OneApiAutoDetectJoin([c EXCEPT !.statusPc = "fulfilled",
                                 !.siteStatus = fetchSiteStatus(answer)])

(***************************************************************************)
(* CubenceAdapter                                                          *)
(***************************************************************************)
CubenceKindError == <<"Cubence adapter requires ", "cookie", " auth (browser login state)">>

\* v?.field
OptProp(v, field) == IF Nullish(v) THEN JsUndefined ELSE Prop(v, field)

\* v ?? fallback
Coalesce(v, fallback) == IF Nullish(v) THEN fallback ELSE v

\* String(v) of a number, a string or undefined
String(v) ==
  CASE v.kind = "number" -> <<ToString(v.num)>>
    [] v.kind = "string" -> v.chars
    [] OTHER -> <<v.kind>>

\* fetchOverview / fetchAnalyticsToday: the path each operation fetches
CubencePath(op) ==
  IF op = "getUsageStats" THEN "/api/v1/analytics/today" ELSE "/api/v1/dashboard/overview"

\* the tests validateConnection and autoDetectAccount make on the overview:
\* the username, or the message of the failure
CubenceOverviewUser(overview) ==
  IF Nullish(overview)
  THEN Throw("TypeError", <<"Cannot read properties of undefined">>)
  ELSE IF ~Truthy(Prop(overview, "success")) \/ ~Truthy(Prop(overview, "data"))
       THEN Return([failure |-> <<"Cubence overview response has an unexpected format">>,
                    username |-> JsUndefined])
  ELSE IF ~Truthy(OptProp(Prop(Prop(overview, "data"), "user"), "username"))
       THEN Return([failure |-> <<"no username, not logged in or the cookie has expired">>,
                    username |-> JsUndefined])
  ELSE Return([failure |-> <<>>,
               username |-> OptProp(Prop(Prop(overview, "data"), "user"), "username")])

\* getAccountBalance taking total_balance_dollar before total_balance
CubenceBalance_DollarFirst(overview) ==
  LET balance == Prop(Prop(overview, "data"), "balance")
      raw == OptProp(balance, "total_balance")
      usd == OptProp(balance, "total_balance_dollar")
      rawBalance == IF usd.kind = "number" THEN MathRound(usd, 1000000)
                    ELSE IF raw.kind = "number" THEN raw.num
                    ELSE 0
  IN IF Nullish(overview)
     THEN Throw("TypeError", <<"Cannot read properties of undefined">>)
     ELSE IF ~Truthy(Prop(overview, "success")) \/ ~Truthy(Prop(overview, "data"))
          THEN Throw("Error", <<"Cubence overview response has an unexpected format">>)
     ELSE Return([rawBalance |-> rawBalance, rawUnit |-> "micro_usd",
                  conversionFactor |-> 1000000, balanceUSD |-> <<rawBalance, 1000000>>])

\* getAccountBalance after fetchOverview returned
CubenceBalance(overview) ==
  LET balance == Prop(Prop(overview, "data"), "balance")
      raw == OptProp(balance, "total_balance")
      usd == OptProp(balance, "total_balance_dollar")
      rawBalance == IF raw.kind = "number" THEN raw.num
                    ELSE IF usd.kind = "number" THEN MathRound(usd, 1000000)
                    ELSE 0
  IN IF Nullish(overview)
     THEN Throw("TypeError", <<"Cannot read properties of undefined">>)
     ELSE IF ~Truthy(Prop(overview, "success")) \/ ~Truthy(Prop(overview, "data"))
          THEN Throw("Error", <<"Cubence overview response has an unexpected format">>)
     ELSE Return([rawBalance |-> rawBalance, rawUnit |-> "micro_usd",
                  conversionFactor |-> 1000000, balanceUSD |-> <<rawBalance, 1000000>>])

\* getUsageStats after fetchAnalyticsToday returned
CubenceUsage(today) ==
  LET code == OptProp(today, "code")
      ok == \/ code.kind = "number" /\ code.num = 200
            \/ code.kind = "string" /\ code.chars = <<"200">>
            \/ code.kind = "undefined"
      data == OptProp(today, "data")
      message == IF Truthy(OptProp(today, "message"))
                 THEN <<": ">> \o OptProp(today, "message").chars
                 ELSE <<>>
  IN IF ~ok \/ ~Truthy(data)
     THEN Throw("Error", <<"Cubence analytics/today response is abnormal (code=">>
                           \o String(code) \o <<")">> \o message)
     ELSE Return([rawConsumption |-> Coalesce(Prop(data, "today_consumed_quota"), JsNumber(0)).num,
                  rawUnit |-> "micro_usd", conversionFactor |-> 1000000,
                  promptTokens |-> Coalesce(Prop(data, "today_tokens"), JsNumber(0)).num,
                  completionTokens |-> 0,
                  requestCount |-> Coalesce(Prop(data, "today_request_count"), JsNumber(0)).num])

\* an operation of CubenceAdapter from the point where fetchJson returned or
\* threw, up to its return; read keeps how fetchJson ended
CubenceContinue(b, json) ==
  LET c == [b EXCEPT !.read = json.outcome]
      user == IF json.outcome = "throw" THEN json ELSE CubenceOverviewUser(json.data)
  IN CASE c.op = "validateConnection" ->
            IF user.outcome = "throw"
            THEN Resolve(c, ValidateResult(FALSE, JsString(ErrorMessage(user.error)),
                                           JsUndefined))
            ELSE IF user.data.failure # <<>>
                 THEN Resolve(c, ValidateResult(FALSE, JsString(user.data.failure), JsUndefined))
            ELSE Resolve(c, ValidateResult(TRUE, JsUndefined,
                            [kind |-> "object", username |-> user.data.username]))
       [] c.op = "autoDetectAccount" ->
            IF user.outcome = "throw"
            THEN Resolve(c, AutoDetectFailure(ErrorMessage(user.error), JsUndefined))
            ELSE IF user.data.failure # <<>>
                 THEN Resolve(c, AutoDetectFailure(user.data.failure, JsUndefined))
            ELSE Resolve(c, [success |-> TRUE, error |-> JsUndefined,
                             detailedError |-> JsUndefined,
                             data |-> [kind |-> "object", username |-> user.data.username,
                                       accessToken |-> JsString(<<>>),
                                       userId |-> JsString(<<>>), exchangeRate |-> JsNull]])
       [] c.op = "getAccountBalance" ->
            Settle(c, IF json.outcome = "throw" THEN json ELSE CubenceBalance(json.data))
       [] c.op = "getUsageStats" ->
            Settle(c, IF json.outcome = "throw" THEN json ELSE CubenceUsage(json.data))

\* an operation of CubenceAdapter, from its call to its first await or its
\* return; new URL(path, baseUrl) throws on a base that is no absolute URL
CubenceStart(op, credentials) ==
  LET c == [IdleCall EXCEPT !.adapter = Cubence, !.op = op, !.auth = credentials.auth,
                            !.settled = "pending"]
      siteUrl == IF op = "autoDetectAccount" THEN trim(credentials.siteUrl)
                 ELSE credentials.siteUrl
  IN IF op = "autoDetectAccount" /\ trim(credentials.siteUrl) = <<>>
     THEN Resolve(c, AutoDetectFailure(<<"site url must not be empty">>, JsUndefined))
     ELSE IF op # "autoDetectAccount" /\ credentials.auth # "cookie"
          THEN IF op = "validateConnection"
               THEN Resolve(c, ValidateResult(FALSE, JsString(CubenceKindError), JsUndefined))
               ELSE Reject(c, [name |-> "Error", message |-> CubenceKindError])
     ELSE IF urlHostname(normalizeSiteUrl(JsString(siteUrl))) = <<>>
          THEN CubenceContinue(c, Throw("TypeError", <<"Invalid URL">>))
     ELSE Request(c, CubencePath(op))

\* fetchJson sending the pageFetchJson message whatever the direct fetch gave
CubenceAnswer_AlwaysFallBack(c, answer) ==
  SendMessage([c EXCEPT !.remote = answer], "pageFetchJson")

\* fetchJson resumed with the answer to its direct fetch: the body when the
\* response is ok and parses, the pageFetchJson message otherwise
CubenceAnswer(c, answer) ==
  IF ResponseOk(answer) /\ answer.body.kind # "unparseable"
  THEN CubenceContinue([c EXCEPT !.remote = answer], Return(answer.body))
  ELSE SendMessage([c EXCEPT !.remote = answer], "pageFetchJson")

\* fetchJson resumed with the reply to its pageFetchJson message
CubenceReply(c, reply) ==
  LET d == [c EXCEPT !.remote = reply]
  IN IF reply.kind = "reject"
     THEN CubenceContinue(d, Throw("Error", <<"Could not establish connection">>))
     ELSE IF ~Truthy(OptProp(reply, "success"))
          THEN CubenceContinue(d, Throw("Error",
                 OrElse(OptProp(reply, "error"),
                        <<"fetching ", CubencePath(c.op), " failed">>)))
     ELSE CubenceContinue(d, Return(Prop(reply, "data")))

(***************************************************************************)
(* AccountManager.  An operation in flight is a record: pc is the await it  *)
(* stands at, tasks the calls handed to Promise.all, value what it resolved *)
(* to.  The adapter call it awaits alone is the call in flight.            *)
(***************************************************************************)
\* Number(s) of a trimmed, non-empty text: its value, or NaN
RECURSIVE Number(_)
Number(s) ==
  LET digits == <<"0","1","2","3","4","5","6","7","8","9">>
  IN IF s = <<>> THEN JsNumber(0)
     ELSE IF s[Len(s)] \notin Range(digits) THEN [kind |-> "NaN"]
     ELSE Bind(Number(SubSeq(s, 1, Len(s) - 1)),
               LAMBDA rest :
                 IF rest.kind = "NaN" THEN rest
                 ELSE JsNumber(10 * rest.num
                               + (CHOOSE d \in 0..9 : digits[d + 1] = s[Len(s)])))

\* {...a, ...b}
Spread(a, b) ==
  [k \in DOMAIN a \cup DOMAIN b |-> IF k \in DOMAIN b THEN b[k] ELSE a[k]]

IdleManager ==
  [op |-> "none", pc |-> "idle", siteUrl |-> <<>>, params |-> [kind |-> "none"],
   accountId |-> 0, siteType |-> <<>>, adapter |-> NoAdapter,
   credentials |-> [auth |-> "none"], username |-> <<>>,
   seed |-> [kind |-> "object"], tasks |-> <<>>, update |-> [kind |-> "none"],
   read |-> <<>>, returns |-> JsUndefined, saved |-> JsUndefined,
   settled |-> "none", value |-> [kind |-> "none"],
   error |-> [name |-> "none", message |-> <<>>]]

\* the operation returns value: its promise resolves
Finish(m, value) ==
  [m EXCEPT !.pc = "done", !.settled = "resolved", !.value = value]

\* {success: false, error} of the save and update flows
SaveFailure(error) ==
  [success |-> FALSE, error |-> JsString(error), accountId |-> JsUndefined]

\* adapter.op(...) of a registered adapter, up to its first await; what an
\* adapter that is not built in does is not known
StartAdapterCall(a, op, credentials) ==
  IF a = OneApi THEN OneApiStart(op, credentials)
  ELSE IF a = Cubence THEN CubenceStart(op, credentials)
  ELSE [IdleCall EXCEPT !.adapter = a, !.op = op, !.auth = credentials.auth,
                        !.pc = "thirdParty", !.settled = "pending"]

\* autoDetectAccount from the resolved site type to the adapter's
\* autoDetectAccount, or to its return
autoDetectAccountResolved(reg, m, siteType) ==
  LET a == getAdapter(reg, JsString(siteType))
      n == [m EXCEPT !.siteType = siteType, !.adapter = a]
  IN IF a = NoAdapter
     THEN [manager |-> Finish(n, AutoDetectFailure(<<"unsupported site type: ">> \o siteType,
                                                   JsUndefined)),
           call |-> IdleCall]
     ELSE IF \/ "AUTO_DETECT" \notin AdapterPool[a].capabilities
             \/ "autoDetectAccount" \notin AdapterPool[a].methods
          THEN [manager |-> Finish(n, AutoDetectFailure(
                                        <<"site type '">> \o siteType
                                        \o <<"' does not support auto detect">>,
                                        JsUndefined)),
                call |-> IdleCall]
     ELSE [manager |-> [n EXCEPT !.pc = "adapter"],
           call |-> StartAdapterCall(a, "autoDetectAccount",
                                     [siteUrl |-> m.siteUrl, auth |-> "none"])]

\* autoDetectAccount from the adapter's result, or from its catch block
autoDetectAccountReturned(m, c) ==
  IF c.settled = "rejected"
  THEN Finish(m, AutoDetectFailure(<<"auto detect failed: ">> \o ErrorMessage(c.error),
                                   analyzeAutoDetectError(c.error)))
  ELSE IF ~c.value.success
       THEN Finish(m, AutoDetectFailure(
                        OrElse(c.value.error, <<"auto detect failed">>),
                        Coalesce(c.value.detailedError,
                                 analyzeAutoDetectError(
                                   JsString(OrElse(c.value.error,
                                                   <<"auto detect failed">>))))))
  ELSE Finish(m, [success |-> TRUE, error |-> JsUndefined, detailedError |-> JsUndefined,
                  data |-> IF Truthy(c.value.data)
                           THEN Spread(c.value.data, [siteType |-> JsString(m.siteType)])
                           ELSE JsUndefined])

\* requireOneApiParams
requireOneApiParams(params) ==
  LET accessToken == trim(OrEmpty(params.accessToken))
      userId == trim(OrEmpty(params.userId))
  IN IF accessToken = <<>> \/ userId = <<>>
     THEN Throw("Error", <<"fill in the access token and the user id">>)
     ELSE IF Number(userId).kind = "NaN"
          THEN Throw("Error", <<"the user id must be a number">>)
     ELSE Return([userId |-> userId, accessToken |-> accessToken])

\* buildCredentialsFromParams: {credentials, username, accountInfoSeed}
buildCredentialsFromParams(adapterId, siteUrl, params) ==
  LET username == trim(params.username)
      apiKey == trim(OrEmpty(params.apiKey))
      required == requireOneApiParams(params)
  IN IF adapterId = CubenceAdapter.id
     THEN Return([credentials |-> [siteUrl |-> siteUrl, auth |-> "cookie"],
                  username |-> username, accountInfoSeed |-> [kind |-> "object"]])
     ELSE IF apiKey # <<>>
          THEN Return([credentials |-> [siteUrl |-> siteUrl, auth |-> "api-key"],
                       username |-> username,
                       accountInfoSeed |-> [kind |-> "object", api_key |-> JsString(apiKey)]])
     ELSE IF required.outcome = "throw" THEN required
     ELSE Return([credentials |-> [siteUrl |-> siteUrl, auth |-> "one-api-token"],
                  username |-> username,
                  accountInfoSeed |->
                    [kind |-> "object", id |-> Number(required.data.userId),
                     access_token |-> JsString(trim(required.data.accessToken))]])

\* the text the catch block of the save, update flow puts before the message
CatchPrefix(op) ==
  IF op = "validateAndSaveAccount" THEN <<"save failed: ">> ELSE <<"update failed: ">>

\* validateAndSaveAccount, validateAndUpdateAccount from the resolved site type
\* to adapter.validateConnection, or to the return
validateResolved(reg, m, siteType) ==
  LET a == getAdapter(reg, JsString(siteType))
      n == [m EXCEPT !.siteType = siteType, !.adapter = a]
  IN IF a = NoAdapter
     THEN [manager |-> Finish(n, SaveFailure(<<"unsupported site type: ">> \o siteType)),
           call |-> IdleCall]
     ELSE Bind(buildCredentialsFromParams(AdapterPool[a].id, m.siteUrl, m.params),
               LAMBDA built :
                 IF built.outcome = "throw"
                 THEN [manager |-> Finish(n, SaveFailure(CatchPrefix(m.op)
                                                         \o ErrorMessage(built.error))),
                       call |-> IdleCall]
                 ELSE [manager |-> [n EXCEPT !.pc = "adapter",
                                             !.credentials = built.data.credentials,
                                             !.username = built.data.username,
                                             !.seed = built.data.accountInfoSeed],
                       call |-> StartAdapterCall(a, "validateConnection",
                                                 built.data.credentials)])

\* [adapter.getAccountBalance ? adapter.getAccountBalance(credentials)
\*  : Promise.resolve(null), the same for getUsageStats]
startFetches(a, credentials) ==
  << IF "getAccountBalance" \in AdapterPool[a].methods
     THEN StartAdapterCall(a, "getAccountBalance", credentials)
     ELSE Resolve(IdleCall, JsNull),
     IF "getUsageStats" \in AdapterPool[a].methods
     THEN StartAdapterCall(a, "getUsageStats", credentials)
     ELSE Resolve(IdleCall, JsNull) >>

\* the account_info the save and update flows build; result?.field ?? 0 of
\* the balance and usage fetched
accountInfo(seed, username, balance, usage) ==
  LET Fetched(result, field) ==
        IF field \in DOMAIN result THEN JsNumber(result[field]) ELSE JsNumber(0)
  IN Spread(seed,
            [kind |-> "object", username |-> JsString(username),
             quota |-> Fetched(balance, "rawBalance"),
             today_prompt_tokens |-> Fetched(usage, "promptTokens"),
             today_completion_tokens |-> Fetched(usage, "completionTokens"),
             today_quota_consumption |-> Fetched(usage, "rawConsumption"),
             today_requests_count |-> Fetched(usage, "requestCount")])

\* validateJoined without the catch block: a rejected balance or usage call
\* rejects the flow
validateJoined_NoCatch(m, now) ==
  LET rejected == {i \in 1..Len(m.tasks) : m.tasks[i].settled = "rejected"}
      first == CHOOSE i \in rejected : \A j \in rejected : i <= j
  IN IF rejected # {}
     THEN [m EXCEPT !.pc = "done", !.settled = "rejected", !.error = m.tasks[first].error]
     ELSE IF \A i \in 1..Len(m.tasks) : m.tasks[i].settled = "resolved"
          THEN [m EXCEPT !.pc = "storage.get",
                         !.update = [site_url |-> m.siteUrl,
                                     site_type |-> JsString(m.siteType),
                                     health_status |-> "healthy",
                                     account_info |-> accountInfo(m.seed, m.username,
                                                                  m.tasks[1].value,
                                                                  m.tasks[2].value),
                                     last_sync_time |-> now]]
     ELSE m

\* await Promise.all(tasks) in the save and update flows: the catch block on
\* the first rejection, the storage call once both are fulfilled.  A task
\* still pending when the other rejects is left: nothing reads its result
validateJoined(m, now) ==
  LET rejected == {i \in 1..Len(m.tasks) : m.tasks[i].settled = "rejected"}
      first == CHOOSE i \in rejected : \A j \in rejected : i <= j
  IN IF rejected # {}
     THEN Finish(m, SaveFailure(CatchPrefix(m.op) \o ErrorMessage(m.tasks[first].error)))
     ELSE IF \A i \in 1..Len(m.tasks) : m.tasks[i].settled = "resolved"
          THEN [m EXCEPT !.pc = "storage.get",
                         !.update = [site_url |-> m.siteUrl,
                                     site_type |-> JsString(m.siteType),
                                     health_status |-> "healthy",
                                     account_info |-> accountInfo(m.seed, m.username,
                                                                  m.tasks[1].value,
                                                                  m.tasks[2].value),
                                     last_sync_time |-> now]]
     ELSE m

\* validateReturned without the test of validation.ok
validateReturned_NoOkCheck(m, c, now) ==
  LET details == IF c.settled = "rejected" THEN JsUndefined ELSE c.value.details
      username == IF m.username # <<>> THEN m.username
                  ELSE IF Truthy(OptProp(details, "username"))
                       THEN OptProp(details, "username").chars
                  ELSE OrEmpty(OptProp(OptProp(details, "user"), "username"))
  IN IF c.settled = "rejected"
     THEN Finish(m, SaveFailure(CatchPrefix(m.op) \o ErrorMessage(c.error)))
     ELSE IF username = <<>>
          THEN Finish(m, SaveFailure(<<"no user name: log in to the site or fill it in">>))
     ELSE validateJoined([m EXCEPT !.pc = "Promise.all", !.username = username,
                                   !.tasks = startFetches(m.adapter, m.credentials)],
                         now)

\* validateAndSaveAccount, validateAndUpdateAccount from the result of
\* validateConnection to Promise.all, or to the return
validateReturned(m, c, now) ==
  LET details == c.value.details
      username == IF m.username # <<>> THEN m.username
                  ELSE IF Truthy(OptProp(details, "username"))
                       THEN OptProp(details, "username").chars
                  ELSE OrEmpty(OptProp(OptProp(details, "user"), "username"))
  IN IF c.settled = "rejected"
     THEN Finish(m, SaveFailure(CatchPrefix(m.op) \o ErrorMessage(c.error)))
     ELSE IF ~c.value.ok
          THEN Finish(m, SaveFailure(OrElse(c.value.message,
                                            <<"account connection validation failed">>)))
     ELSE IF username = <<>>
          THEN Finish(m, SaveFailure(<<"no user name: log in to the site or fill it in">>))
     ELSE validateJoined([m EXCEPT !.pc = "Promise.all", !.username = username,
                                   !.tasks = startFetches(m.adapter, m.credentials)],
                         now)

(***************************************************************************)
(* AccountStorageService.  A stored account keeps the fields the flows     *)
(* read and write; the instants Date.now() gives are names that only       *)
(* differ.                                                                 *)
(***************************************************************************)
\* getAllAccounts from the answer of storage.get: the stored accounts with
\* the defaults of old data filled in, [] when reading failed
getAllAccounts(stored, got) ==
  IF ~got \/ stored = <<>> THEN <<>>
  ELSE [i \in 1..Len(stored) |->
          [stored[i] EXCEPT
             !.site_type = Coalesce(@, JsString(OneApiAdapter.id)),
             !.account_info =
                Spread(@, [f \in {"quota", "today_prompt_tokens", "today_completion_tokens",
                                  "today_quota_consumption", "today_requests_count"} |->
                             Coalesce(Prop(@, f), JsNumber(0))])]]

\* accounts.find(account => account.id === id) || null
getAccountById(list, id) ==
  IF \E i \in 1..Len(list) : list[i].id = id
  THEN list[CHOOSE i \in 1..Len(list) :
              list[i].id = id /\ \A j \in 1..(i - 1) : list[j].id # id]
  ELSE JsNull

\* addAccount from the list read to saveAccounts: the list to save and the
\* id generateId gave, one no account of the list has
addAccount(list, accountData, now) ==
  LET ids == {list[i].id : i \in 1..Len(list)} \cup {0}
      id == 1 + CHOOSE n \in ids : \A k \in ids : k <= n
  IN [id |-> id,
      accounts |-> Append(list, Spread(accountData,
                                       [id |-> id, created_at |-> now, updated_at |-> now]))]

\* updateAccount saving the list as it was read, the updates left out
updateAccount_DropUpdates(list, id, updates, now) ==
  IF getAccountById(list, id) = JsNull
  THEN Throw("Error", <<"account ", ToString(id), " does not exist">>)
  ELSE Return(list)

\* updateAccount from the list read to saveAccounts: the list to save, or
\* the Error thrown when no account has the id
updateAccount(list, id, updates, now) ==
  IF getAccountById(list, id) = JsNull
  THEN Throw("Error", <<"account ", ToString(id), " does not exist">>)
  ELSE Return([i \in 1..Len(list) |->
                 IF list[i].id = id /\ \A j \in 1..(i - 1) : list[j].id # id
                 THEN Spread(Spread(list[i], updates), [updated_at |-> now])
                 ELSE list[i]])

\* deleteAccount from the list read to saveAccounts: the list to save, or
\* the Error thrown when no account has the id
deleteAccount(list, id) ==
  LET filteredAccounts == SelectSeq(list, LAMBDA account : account.id # id)
  IN IF Len(filteredAccounts) = Len(list)
     THEN Throw("Error", <<"account ", ToString(id), " does not exist">>)
     ELSE Return(filteredAccounts)

\* determineHealthStatus(error).status
determineHealthStatus(error) ==
  IF error.name = "ApiError"
  THEN IF "statusCode" \in DOMAIN error /\ error.statusCode # 0
       THEN "warning" ELSE "unknown"
  ELSE IF error.name = "TypeError" /\ "fetch" \in Range(error.message)
       THEN "error"
  ELSE "unknown"

\* buildCredentialsFromStoredAccount
buildCredentialsFromStoredAccount(account) ==
  LET info == account.account_info
  IN IF toLowerCase(account.site_type.chars) = CubenceAdapter.id
     THEN Return([siteUrl |-> account.site_url, auth |-> "cookie"])
     ELSE IF Truthy(Prop(info, "api_key"))
          THEN Return([siteUrl |-> account.site_url, auth |-> "api-key"])
     ELSE IF ~Truthy(Prop(info, "access_token")) \/ Prop(info, "id").kind # "number"
          THEN Throw("Error", <<"the account has no userId or access_token">>)
     ELSE Return([siteUrl |-> account.site_url, auth |-> "one-api-token"])

\* refreshCaught writing an account_info with the quota reset
refreshCaught_ResetInfo(m, error, now) ==
  [m EXCEPT !.pc = "storage.get", !.error = error,
            !.returns = JsBoolean(FALSE),
            !.update = [health_status |-> determineHealthStatus(error),
                        last_sync_time |-> now,
                        account_info |-> Spread(m.seed, [quota |-> JsNumber(0)])]]

\* refreshAccount's catch block up to its updateAccount
refreshCaught(m, error, now) ==
  [m EXCEPT !.pc = "storage.get", !.error = error,
            !.returns = JsBoolean(FALSE),
            !.update = [health_status |-> determineHealthStatus(error),
                        last_sync_time |-> now]]

\* await Promise.all(tasks) in refreshAccount: the catch block on the first
\* rejection, updateAccount with the merged account_info once both are
\* fulfilled
refreshJoined(m, now) ==
  LET rejected == {i \in 1..Len(m.tasks) : m.tasks[i].settled = "rejected"}
      first == CHOOSE i \in rejected : \A j \in rejected : i <= j
      balance == m.tasks[1].value
      usage == m.tasks[2].value
      quota == IF "rawBalance" \in DOMAIN balance
               THEN [quota |-> JsNumber(balance.rawBalance)] ELSE <<>>
      today == IF "rawConsumption" \in DOMAIN usage
               THEN [today_quota_consumption |-> JsNumber(usage.rawConsumption),
                     today_prompt_tokens |-> JsNumber(usage.promptTokens),
                     today_completion_tokens |-> JsNumber(usage.completionTokens),
                     today_requests_count |-> JsNumber(usage.requestCount)]
               ELSE <<>>
  IN IF rejected # {} THEN refreshCaught(m, m.tasks[first].error, now)
     ELSE IF \A i \in 1..Len(m.tasks) : m.tasks[i].settled = "resolved"
          THEN [m EXCEPT !.pc = "storage.get", !.returns = JsBoolean(TRUE),
                         !.update = [health_status |-> "healthy", last_sync_time |-> now,
                                     account_info |-> Spread(Spread(m.seed, quota), today)]]
     ELSE m

\* refreshAccount from the account getAccountById gave to Promise.all, or to
\* its catch block
refreshLoaded(reg, m, account, now) ==
  LET siteType == toLowerCase(OrElse(account.site_type, OneApiAdapter.id))
      a == getAdapter(reg, JsString(siteType))
      credentials == buildCredentialsFromStoredAccount(account)
  IN IF account = JsNull
     THEN refreshCaught(m, [name |-> "Error",
                            message |-> <<"account ", ToString(m.accountId),
                                          " does not exist">>], now)
     ELSE IF a = NoAdapter
          THEN refreshCaught(m, [name |-> "Error",
                                 message |-> <<"unsupported site type: ">> \o siteType], now)
     ELSE IF credentials.outcome = "throw" THEN refreshCaught(m, credentials.error, now)
     ELSE refreshJoined([m EXCEPT !.pc = "Promise.all", !.siteType = siteType,
                                  !.adapter = a, !.credentials = credentials.data,
                                  !.seed = account.account_info,
                                  !.tasks = startFetches(a, credentials.data)],
                        now)

\* an operation from the answer of the storage.get it awaits: got says
\* whether reading gave the stored list.  The save flow goes on to save the
\* list with the new account, the update and refresh flows the list with the
\* account merged, and refreshAccount's first read gives the account
storageGot(reg, m, stored, got, now) ==
  LET list == getAllAccounts(stored, got)
      added == addAccount(list, m.update, now)
      updated == updateAccount(list, m.accountId, m.update, now)
      deleted == deleteAccount(list, m.accountId)
  IN CASE m.pc = "load" -> refreshLoaded(reg, m, getAccountById(list, m.accountId), now)
       [] m.op = "deleteAccount" ->
            IF deleted.outcome = "throw"
            THEN [m EXCEPT !.pc = "done", !.settled = "rejected", !.error = deleted.error]
            ELSE [m EXCEPT !.pc = "storage.set", !.read = deleted.data]
       [] m.op = "validateAndSaveAccount" ->
            [m EXCEPT !.pc = "storage.set", !.read = added.accounts, !.accountId = added.id]
       [] updated.outcome = "throw" ->
            IF m.op = "refreshAccount"
            THEN Finish([m EXCEPT !.saved = JsBoolean(FALSE)], m.returns)
            ELSE Finish([m EXCEPT !.saved = JsBoolean(FALSE)],
                        SaveFailure(<<"updating the account failed">>))
       [] OTHER -> [m EXCEPT !.pc = "storage.set", !.read = updated.data]

\* an operation from the answer of the storage.set it awaits: what it
\* resolves to.  saved is what addAccount or updateAccount gives back, which
\* refreshAccount does not read
storageSet(m, saved) ==
  LET n == [m EXCEPT !.saved = JsBoolean(saved)]
  IN CASE m.op = "refreshAccount" -> Finish(n, m.returns)
       [] m.op = "deleteAccount" ->
            IF saved THEN Finish(n, JsBoolean(TRUE))
            ELSE [n EXCEPT !.pc = "done", !.settled = "rejected",
                           !.error = [name |-> "Error", message |-> <<"storage failure">>]]
       [] saved -> Finish(n, [success |-> TRUE, error |-> JsUndefined,
                              accountId |-> JsNumber(m.accountId)])
       [] m.op = "validateAndSaveAccount" ->
            Finish(n, SaveFailure(CatchPrefix(m.op) \o <<"storage failure">>))
       [] OTHER -> Finish(n, SaveFailure(<<"updating the account failed">>))

\* what a call of an adapter that is not built in can give: its code is not
\* known, only the type of what it returns
ThirdPartyResults(op) ==
  { Throw("Error", <<"boom">>), Throw("string", <<"boom">>) }
  \cup
  CASE op = "validateConnection" ->
         { Return(ValidateResult(TRUE, JsUndefined, JsUndefined)),
           Return(ValidateResult(TRUE, JsUndefined,
                    [kind |-> "object", user |-> [kind |-> "object", username |-> Alice]])),
           Return(ValidateResult(FALSE, JsUndefined, JsUndefined)) }
    [] op = "autoDetectAccount" ->
         { Return(AutoDetectFailure(<<>>, JsUndefined)),
           Return(AutoDetectFailure(<<"no session">>, [kind |-> "object"])),
           Return([success |-> TRUE, error |-> JsUndefined, detailedError |-> JsUndefined,
                   data |-> JsUndefined]),
           Return([success |-> TRUE, error |-> JsUndefined, detailedError |-> JsUndefined,
                   data |-> [kind |-> "object", username |-> Alice]]) }
    [] op = "getAccountBalance" ->
         { Return([rawBalance |-> 9, rawUnit |-> "points", conversionFactor |-> 1,
                   balanceUSD |-> <<9, 1>>]),
           Throw("TypeError", <<"Failed to ", "fetch">>),
           [Throw("ApiError", <<>>) EXCEPT !.error = ApiError(<<"unavailable">>, 503)] }
    [] OTHER ->
         { Return([rawConsumption |-> 1, rawUnit |-> "points", conversionFactor |-> 1,
                   promptTokens |-> 2, completionTokens |-> 3, requestCount |-> 4]),
           Throw("TypeError", <<"Failed to ", "fetch">>) }

\* resolveSiteType, and the same lines of autoDetectAccount: the site type
\* named, or detectSiteType(siteUrl) up to its first await
resolveSiteType(reg, m, siteType) ==
  LET explicit == toLowerCase(trim(OrEmpty(siteType)))
  IN IF explicit = <<>> \/ explicit = <<"a","u","t","o">>
     THEN [manager |-> [m EXCEPT !.pc = "detect"], call |-> IdleCall,
           detect |-> detectSiteTypeStart(reg, JsString(m.siteUrl))]
     ELSE Spread(IF m.op = "autoDetectAccount"
                 THEN autoDetectAccountResolved(reg, m, explicit)
                 ELSE validateResolved(reg, m, explicit),
                 [detect |-> IdleDetect])

\* an operation of AccountManager from its call to its first await, or to
\* its return
managerCalled(reg, op, accountId, params) ==
  LET m == [IdleManager EXCEPT !.op = op, !.siteUrl = trim(params.url),
                               !.params = params, !.accountId = accountId]
      returns(value) == [manager |-> Finish(m, value), call |-> IdleCall,
                         detect |-> IdleDetect]
  IN CASE op = "refreshAccount" ->
            [manager |-> [m EXCEPT !.pc = "load"], call |-> IdleCall, detect |-> IdleDetect]
       [] op = "refreshAllAccounts" ->
            [manager |-> [m EXCEPT !.pc = "storage.get"], call |-> IdleCall,
             detect |-> IdleDetect]
       [] op = "autoDetectAccount" /\ trim(params.url) = <<>> ->
            returns(AutoDetectFailure(<<"the site url must not be empty">>, JsUndefined))
       [] op = "validateAndUpdateAccount" /\ accountId = 0 ->
            returns(SaveFailure(<<"the account id must not be empty">>))
       [] op # "autoDetectAccount" /\ (trim(params.url) = <<>> \/ trim(params.siteName) = <<>>) ->
            returns(SaveFailure(<<"fill in the whole account">>))
       [] OTHER -> resolveSiteType(reg, m, params.siteType)

\* the operation resumed with what detectSiteType resolved to
managerDetected(reg, m, d) ==
  LET siteType == IF d.result # <<>> THEN d.result ELSE OneApiAdapter.id
  IN IF d.settled = "rejected"
     THEN [manager |-> [m EXCEPT !.pc = "done", !.settled = "rejected"], call |-> IdleCall]
     ELSE IF m.op = "autoDetectAccount" THEN autoDetectAccountResolved(reg, m, siteType)
     ELSE validateResolved(reg, m, siteType)

\* refreshAllAccounts from the list getAllAccounts gave: one refreshAccount
\* call per account, each run to its first await
refreshAllStarted(m, list) ==
  << [m EXCEPT !.pc = "allSettled", !.read = list] >>
  \o [k \in 1..Len(list) |->
        [IdleManager EXCEPT !.op = "refreshAccount", !.pc = "load",
                            !.accountId = list[k].id]]

\* refreshAllSettled returning as soon as one refreshAccount call has settled
refreshAllSettled_Any(procs) ==
  LET calls == 2..Len(procs)
      fulfilled == {k \in calls : procs[k].settled = "resolved" /\ procs[k].value.bool}
  IN IF /\ procs # <<>>
        /\ procs[1].pc = "allSettled"
        /\ \E k \in calls : procs[k].pc = "done"
     THEN [procs EXCEPT ![1] = Finish(@, [success |-> Cardinality(fulfilled),
                                          failed |-> Cardinality(calls \ fulfilled)])]
     ELSE procs

\* refreshAllAccounts from Promise.allSettled to its return, once every
\* refreshAccount call has settled
refreshAllSettled(procs) ==
  LET calls == 2..Len(procs)
      fulfilled == {k \in calls : procs[k].settled = "resolved" /\ procs[k].value.bool}
  IN IF /\ procs # <<>>
        /\ procs[1].pc = "allSettled"
        /\ \A k \in calls : procs[k].pc = "done"
     THEN [procs EXCEPT ![1] = Finish(@, [success |-> Cardinality(fulfilled),
                                          failed |-> Cardinality(calls \ fulfilled)])]
     ELSE procs

(***************************************************************************)
(* The background script.  tempWindows is its Map from request id to       *)
(* window id, windows the windows the browser has open with the status of  *)
(* the tab of each, handlers the calls of handlePageFetchJson and          *)
(* handleAutoDetectSite in flight, each with the promise, the timer and    *)
(* the polling of its waitForTabComplete.                                  *)
(***************************************************************************)
MaxRequests == 2

\* tempWindows.delete(k)
MapDelete(m, k) == SelectSeq(m, LAMBDA e : e.key # k)

IdleHandler ==
  [action |-> "none", requestId |-> "", pc |-> "idle", windowId |-> 0, tabId |-> 0,
   created |-> 0, closing |-> 0, wait |-> "none", timer |-> "none", polling |-> FALSE,
   grace |-> "none", responses |-> 0, success |-> FALSE]

IdleBackground ==
  [tempWindows |-> <<>>, windows |-> <<>>, created |-> 0, handlers |-> <<>>]

\* sendResponse({success, ...}), the last statement of every path
sendResponse(h, success) ==
  [h EXCEPT !.pc = "done", !.responses = @ + 1, !.success = success]

\* the windows.onRemoved listener: the first entry of the window is deleted
onRemoved(m, w) ==
  IF \E i \in 1..Len(m) : m[i].value = w
  THEN LET first == CHOOSE i \in 1..Len(m) :
                       m[i].value = w /\ \A j \in 1..(i - 1) : m[j].value # w
       IN SubSeq(m, 1, first - 1) \o SubSeq(m, first + 1, Len(m))
  ELSE m

\* the window w is closed, its tab goes with it, and the listener runs
windowRemoved(bg, w) ==
  [bg EXCEPT !.windows = [v \in DOMAIN bg.windows \ {w} |-> bg.windows[v]],
             !.tempWindows = onRemoved(@, w)]

\* the catch block of a handler, up to chrome.windows.remove or to its
\* failure response
catchBlock(bg, i) ==
  LET h == bg.handlers[i]
  IN IF MapHas(bg.tempWindows, h.requestId)
     THEN [bg EXCEPT !.handlers[i] =
             [h EXCEPT !.pc = "cleanup", !.closing = MapGet(bg.tempWindows, h.requestId)]]
     ELSE [bg EXCEPT !.handlers[i] = sendResponse(h, FALSE)]

\* the handler of a pageFetchJson or autoDetectSite message, from its call to
\* chrome.windows.create; handlePageFetchJson answers at once when the
\* request has no request id
handlerCalled(bg, action, requestId) ==
  LET h == [IdleHandler EXCEPT !.action = action, !.requestId = requestId]
  IN [bg EXCEPT !.handlers =
        Append(@, IF action = "pageFetchJson" /\ requestId = ""
                  THEN sendResponse(h, FALSE)
                  ELSE [h EXCEPT !.pc = "create"])]

\* the handler from the answer of chrome.windows.create: it throws, gives a
\* window without a tab, or a window with its tab, which is recorded and
\* waited for; waitForTabComplete sets its timer and polls
windowCreated(bg, i, outcome) ==
  LET h == bg.handlers[i]
      w == bg.created + 1
      opened(status) ==
        [bg EXCEPT !.created = w,
                   !.windows = [v \in DOMAIN bg.windows \cup {w} |->
                                  IF v = w THEN status ELSE bg.windows[v]],
                   !.handlers[i].created = w]
  IN CASE outcome = "throw" -> catchBlock(bg, i)
       [] outcome = "no tab" -> catchBlock(opened("none"), i)
       [] OTHER ->
            [opened("loading") EXCEPT
               !.tempWindows = MapSet(@, h.requestId, w),
               !.handlers[i] = [h EXCEPT !.created = w, !.windowId = w, !.tabId = w,
                                         !.pc = "wait", !.wait = "pending",
                                         !.timer = "armed", !.polling = TRUE]]

\* resolve() or reject() of the promise of waitForTabComplete: nothing once
\* it is settled; the handler goes on to its script or message, or to its
\* catch block
waitSettled(bg, i, how) ==
  LET h == bg.handlers[i]
  IN IF h.wait # "pending" THEN bg
     ELSE IF how = "rejected"
          THEN catchBlock([bg EXCEPT !.handlers[i].wait = how], i)
     ELSE [bg EXCEPT !.handlers[i].wait = how,
                     !.handlers[i].pc = IF h.action = "pageFetchJson"
                                        THEN "executeScript" ELSE "sendMessage"]

\* the callback of chrome.tabs.get in checkStatus
tabsGot(bg, i) ==
  LET h == bg.handlers[i]
      cleared == [bg EXCEPT !.handlers[i].polling = FALSE,
                            !.handlers[i].timer = IF @ = "armed" THEN "cleared" ELSE @]
  IN IF h.tabId \notin DOMAIN bg.windows
     THEN waitSettled(cleared, i, "rejected")
     ELSE IF bg.windows[h.tabId] = "complete"
          THEN [cleared EXCEPT !.handlers[i].grace = "armed"]
     ELSE bg

\* the timeout of waitForTabComplete fires
timeoutFired(bg, i) ==
  waitSettled([bg EXCEPT !.handlers[i].timer = "fired"], i, "rejected")

\* setTimeout(resolve, 1000) fires
graceFired(bg, i) ==
  waitSettled([bg EXCEPT !.handlers[i].grace = "fired"], i, "resolved")

\* handlePageFetchJson from the answer of chrome.scripting.executeScript, and
\* handleAutoDetectSite from the answer of chrome.tabs.sendMessage
scriptAnswered(bg, i, result) ==
  IF result = "ok"
  THEN [bg EXCEPT !.handlers[i].pc = "remove",
                  !.handlers[i].closing = bg.handlers[i].windowId]
  ELSE catchBlock(bg, i)

\* a handler from the answer of the chrome.windows.remove it awaits, which
\* throws when the window is not there
windowsRemoved(bg, i) ==
  LET h == bg.handlers[i]
      there == h.closing \in DOMAIN bg.windows
      closed == windowRemoved(bg, h.closing)
      released == [closed EXCEPT !.tempWindows = MapDelete(@, h.requestId)]
  IN IF h.pc = "remove"
     THEN IF there THEN [released EXCEPT !.handlers[i] = sendResponse(h, TRUE)]
          ELSE catchBlock(bg, i)
     ELSE IF there THEN [released EXCEPT !.handlers[i] = sendResponse(h, FALSE)]
     ELSE [bg EXCEPT !.handlers[i] = sendResponse(h, FALSE)]

(***************************************************************************)
(* State                                                                   *)
(***************************************************************************)
VARIABLES
  instance,   \* SiteAdapterRegistry.instance is set
  registry,   \* the fields of the registry object
  history,    \* what has been constructed and registered so far
  last,       \* the last synchronous call and how it ended
  detect,     \* the detectSiteType call in flight
  call,       \* the adapter operation in flight
  accounts,   \* the account list chrome.storage holds
  manager,    \* the AccountManager operations in flight: the one called, then
              \* the refreshAccount calls of refreshAllAccounts
  background  \* the background script and the windows of the browser

registryVars == <<instance, registry, history, last, detect>>

managerVars == <<accounts, manager>>

vars == <<instance, registry, history, last, detect, call, accounts, manager, background>>

NoCall ==
  [op |-> "none", adapter |-> NoAdapter, input |-> JsUndefined, capability |-> "none",
   outcome |-> "none", error |-> "none", result |-> NoAdapter]

InitRegistry ==
  /\ instance = FALSE
  /\ registry = NewRegistry
  /\ history = [registriesCreated |-> 0, builtInCalls |-> <<>>, registered |-> {},
                registerCalls |-> 0, getInstanceCalls |-> 0, managerCreated |-> FALSE]
  /\ last = NoCall
  /\ detect = IdleDetect
  /\ call = IdleCall
  /\ accounts = <<>>
  /\ manager = <<>>
  /\ background = IdleBackground

GetInstanceEffect(op) ==
  \E r \in {getInstance(instance, registry)} :
     /\ instance' = TRUE
     /\ registry' = r.reg
     /\ history' = [history EXCEPT
          !.registriesCreated = @ + r.created,
          !.builtInCalls = @ \o r.calls,
          !.registered = @ \cup {r.calls[i][1] : i \in {j \in 1..Len(r.calls) : r.calls[j][2] = "return"}},
          !.getInstanceCalls = @ + 1,
          !.managerCreated = @ \/ op = "AccountManager"]
     /\ last' = [NoCall EXCEPT !.op = "getInstance", !.outcome = r.outcome]

\* SiteAdapterRegistry.getInstance()
GetInstance ==
  /\ history.getInstanceCalls < MaxGetInstanceCalls
  /\ GetInstanceEffect("getInstance")
  /\ UNCHANGED <<detect, call, accounts, background, manager>>

\* AccountManager.getInstance(): the first call constructs the manager, whose
\* registry field is initialised by SiteAdapterRegistry.getInstance()
AccountManagerGetInstance ==
  /\ ~history.managerCreated
  /\ history.getInstanceCalls < MaxGetInstanceCalls
  /\ GetInstanceEffect("AccountManager")
  /\ UNCHANGED <<detect, call, accounts, background, manager>>

\* registry.registerAdapter(adapter), on the instance getInstance() returned
RegisterAdapter(a) ==
  /\ instance
  /\ history.registerCalls < MaxRegisterCalls
  /\ \E r \in {registerAdapter(registry, a)} :
        /\ registry' = r.reg
        /\ history' = [history EXCEPT
             !.registerCalls = @ + 1,
             !.registered = IF r.outcome = "return" THEN @ \cup {a} ELSE @]
        /\ last' = [NoCall EXCEPT !.op = "registerAdapter", !.adapter = a,
                                  !.outcome = r.outcome, !.error = r.error]
  /\ UNCHANGED <<instance, detect, call, accounts, background, manager>>

\* site-type strings handed to getAdapter
SiteTypeInputs ==
  { JsUndefined, JsNull, JsString(<<>>), JsString(<<" ">>),
    JsString(<<" ","C","u","b","e","n","c","e","\t">>),
    JsString(<<"O","N","E","-","A","P","I">>),
    JsString(<<"a","x">>), JsString(<<"A","X","\n">>), JsString(<<"a"," ","x">>),
    JsString(<<"C","x">>), JsString(<<"z","z">>) }

\* registry.getAdapter(siteType)
GetAdapter(siteType) ==
  /\ instance
  /\ last' = [NoCall EXCEPT !.op = "getAdapter", !.input = siteType,
                            !.outcome = "return",
                            !.result = getAdapter(registry, siteType)]
  /\ UNCHANGED <<instance, registry, history, detect, call, accounts, background, manager>>

\* assertAdapterCapability(adapter, capability), adapter possibly null
AssertAdapterCapability(a, capability) ==
  /\ instance
  /\ last' = [NoCall EXCEPT !.op = "assertAdapterCapability", !.adapter = a,
                            !.capability = capability,
                            !.outcome = assertAdapterCapability(a, capability)]
  /\ UNCHANGED <<instance, registry, history, detect, call, accounts, background, manager>>

\* registry.detectSiteType(siteUrl) is called and runs to its first await
DetectStart(siteUrl) ==
  /\ instance
  /\ detect.pc \in {"idle", "done"}
  /\ detect' = detectSiteTypeStart(registry, siteUrl)
  /\ UNCHANGED <<instance, registry, history, last, call, accounts, background, manager>>

\* the awaited getSiteStatus settles and detectSiteType runs on
DetectResume(outcome) ==
  /\ detect.pc = "await"
  /\ outcome \in ProbeOutcomes(detect.adapters[detect.idx], detect.url)
  /\ detect' = detectSiteTypeResume(detect, outcome)
  /\ UNCHANGED <<instance, registry, history, last, call, accounts, background, manager>>

NextRegistry ==
  \/ GetInstance
  \/ AccountManagerGetInstance
  \/ \E a \in AdapterIds : RegisterAdapter(a)
  \/ \E s \in SiteTypeInputs : GetAdapter(s)

SpecRegistry == InitRegistry /\ [][NextRegistry]_vars

\* adapters registered while site types are detected: the third-party adapters
\* that pass the capability check
ProbedAdapters == {a \in ThirdParty : assertCapabilitiesImplemented(a) = "ok"}

NextDetect ==
  \/ GetInstance
  \/ \E a \in ProbedAdapters : RegisterAdapter(a)
  \/ \E u \in SiteUrlInputs : DetectStart(u)
  \/ \E o \in {"truthy", "falsy", "throw"} : DetectResume(o)

SpecDetect == InitRegistry /\ [][NextDetect]_vars

\* adapters registered before capabilities are asserted
GuardedAdapters == {3, 4, 5}

NextCapability ==
  \/ GetInstance
  \/ \E a \in GuardedAdapters : RegisterAdapter(a)
  \/ \E a \in AdapterIds \cup {NoAdapter}, c \in Capabilities : AssertAdapterCapability(a, c)

SpecCapability == InitRegistry /\ [][NextCapability]_vars

(***************************************************************************)
(* Operations of the built-in adapters                                     *)
(***************************************************************************)
\* SiteAuth.kind
AuthKinds == {"one-api-token", "api-key", "cookie"}

\* site URLs handed to the adapters: empty, blank, absolute, without scheme
AdapterSiteUrls ==
  { <<>>, <<" ", "\t">>,
    <<" ">> \o Https \o <<"a",".","i","o","/"," ">>,
    <<"a",".","i","o">> }

\* the operations of a built-in adapter that a caller starts with credentials
\* or a site URL
Operations(a) == AdapterPool[a].methods \ {"getSiteStatus", "getOrCreateAccessToken"}

\* the paths fetch() is awaited on
Endpoints ==
  {OneApiEndpoint(op) : op \in Operations(OneApi) \ {"autoDetectAccount"}}
  \cup {CubencePath(op) : op \in Operations(Cubence)}

\* adapter.op(credentials), or adapter.autoDetectAccount(siteUrl), is called
\* and runs to its first await
AdapterCall(a, op, credentials) ==
  /\ call.pc = "idle"
  /\ op \in Operations(a)
  /\ (op = "autoDetectAccount") = (credentials.auth = "none")
  /\ call' = IF a = OneApi THEN OneApiStart(op, credentials)
             ELSE CubenceStart(op, credentials)
  /\ UNCHANGED <<registryVars, accounts, background, manager>>

\* the awaited fetch settles and the operation runs on
HttpAnswer ==
  /\ call.pc \in Endpoints
  /\ \E answer \in HttpAnswers(call.pc) :
       call' = IF call.adapter = OneApi THEN OneApiAnswer(call, answer)
               ELSE CubenceAnswer(call, answer)
  /\ UNCHANGED <<registryVars, accounts, background, manager>>

\* the awaited chrome.runtime.sendMessage settles and the operation runs on
ExtensionReply ==
  /\ call.pc \in {"autoDetectSite", "pageFetchJson"}
  /\ \E reply \in Replies(call.pc, CubencePath(call.op)) :
       call' = IF call.adapter = OneApi THEN OneApiReply(call, reply)
               ELSE CubenceReply(call, reply)
  /\ UNCHANGED <<registryVars, accounts, background, manager>>

\* the request of getOrCreateAccessToken settles, inside Promise.all
TokenAnswer ==
  /\ call.pc = "Promise.all"
  /\ call.tokenPc \in {"/api/user/self", "/api/user/token"}
  /\ \E answer \in HttpAnswers(call.tokenPc) : call' = OneApiTokenAnswer(call, answer)
  /\ UNCHANGED <<registryVars, accounts, background, manager>>

\* the request of fetchSiteStatus settles, inside Promise.all
StatusAnswer ==
  /\ call.pc = "Promise.all"
  /\ call.statusPc = "/api/status"
  /\ \E answer \in HttpAnswers(call.statusPc) : call' = OneApiStatusAnswer(call, answer)
  /\ UNCHANGED <<registryVars, accounts, background, manager>>

\* the caller has the settled promise; the adapter keeps nothing of the call
AdapterReturn ==
  /\ call.pc = "done"
  /\ call' = IdleCall
  /\ UNCHANGED <<registryVars, accounts, background, manager>>

NextAdapters ==
  \/ \E a \in {OneApi, Cubence}, op \in Operations(OneApi), u \in AdapterSiteUrls,
        k \in AuthKinds \cup {"none"} : AdapterCall(a, op, [siteUrl |-> u, auth |-> k])
  \/ HttpAnswer
  \/ ExtensionReply
  \/ TokenAnswer
  \/ StatusAnswer
  \/ AdapterReturn

SpecAdapters == InitRegistry /\ [][NextAdapters]_vars

(***************************************************************************)
(* Operations of AccountManager                                            *)
(***************************************************************************)
\* what Date.now() gives; the instants already stored are "earlier"
Clock == {"now"}

\* an account as addAccount stores it
StoredAccount(id, siteUrl, siteType, info) ==
  [id |-> id, site_url |-> siteUrl, site_type |-> JsString(siteType),
   health_status |-> "healthy",
   account_info |-> Spread([kind |-> "object", username |-> Alice, quota |-> JsNumber(1),
                            today_prompt_tokens |-> JsNumber(0),
                            today_completion_tokens |-> JsNumber(0),
                            today_quota_consumption |-> JsNumber(0),
                            today_requests_count |-> JsNumber(0)], info),
   last_sync_time |-> "earlier", created_at |-> "earlier", updated_at |-> "earlier"]

SiteUrl == Https \o <<"a",".","i","o">>

\* stored accounts: of a one-api site with a token, of Cubence, of a one-api
\* site with an API key, of a site type no adapter has, of an adapter that
\* is not built in, of a one-api site with neither token nor API key
StoredAccounts ==
  << StoredAccount(1, SiteUrl, OneApiAdapter.id,
                   [id |-> JsNumber(42), access_token |-> Token]),
     StoredAccount(2, Https \o CubenceCom, CubenceAdapter.id, <<>>),
     StoredAccount(3, SiteUrl, OneApiAdapter.id, [api_key |-> JsString(<<"k">>)]),
     StoredAccount(4, SiteUrl, <<"z","z">>, <<>>),
     StoredAccount(5, SiteUrl, <<"c","x">>, [api_key |-> JsString(<<"k">>)]),
     StoredAccount(6, SiteUrl, <<"N","e","w","-","A","P","I">>, <<>>) >>

\* the registry of the manager: the built-in adapters and two that are not
\* built in, one with AUTO_DETECT and USAGE_STATS, one without capabilities
ManagerRegistry ==
  registerAdapter(registerAdapter(getInstance(FALSE, NewRegistry).reg, 5).reg, 4).reg

\* the accounts the save and update flows find stored
ManagerStates == { <<ManagerRegistry, SubSeq(StoredAccounts, 1, 2)>> }

\* the form of the add-account dialog, filled in
FilledForm ==
  [url |-> <<" ">> \o SiteUrl \o <<" ">>, siteName |-> <<"s">>, username |-> <<"u">>,
   accessToken |-> Token, userId |-> JsString(<<"4","2">>), apiKey |-> JsUndefined,
   siteType |-> JsString(<<"O","n","e","-","A","P","I">>)]

SiteTypeParams ==
  { JsUndefined, JsString(<<" ","A","u","t","o">>), JsString(<<"O","n","e","-","A","P","I">>),
    JsString(<<"c","u","b","e","n","c","e">>), JsString(<<"z","z">>),
    JsString(<<"b","x">>), JsString(<<"c","x">>) }

\* the site url and site type handed to autoDetectAccount
UrlInputs ==
  { [FilledForm EXCEPT !.siteType = t] : t \in SiteTypeParams }
  \cup { [FilledForm EXCEPT !.siteType = t, !.url = Https \o CubenceCom] :
           t \in {JsUndefined, JsString(<<"c","u","b","e","n","c","e">>)} }
  \cup { [FilledForm EXCEPT !.url = <<" ">>] }

\* the forms handed to validateAndSaveAccount and validateAndUpdateAccount
ParamInputs ==
  UrlInputs
  \cup { [p EXCEPT !.username = <<>>] : p \in UrlInputs }
  \cup { [FilledForm EXCEPT !.siteType = t, !.apiKey = JsString(<<"k">>)] :
           t \in SiteTypeParams }
  \cup { [FilledForm EXCEPT !.siteType = t, !.accessToken = x[1], !.userId = x[2]] :
           t \in SiteTypeParams,
           x \in { <<JsUndefined, JsString(<<"4","2">>)>>,
                   <<JsString(<<" ">>), JsString(<<"4","2">>)>>,
                   <<Token, JsUndefined>>, <<Token, JsString(<<>>)>>,
                   <<Token, JsString(<<"4","x">>)>> } }
  \cup { [FilledForm EXCEPT !.url = <<" ">>], [FilledForm EXCEPT !.siteName = <<"\t">>] }

\* the answers the sites give while the manager runs: a log of one page
ManagerAnswers(endpoint) ==
  { a \in HttpAnswers(endpoint) :
      ~(/\ a.body.kind = "object"
        /\ Truthy(Prop(Prop(a.body, "data"), "total"))
        /\ Prop(Prop(a.body, "data"), "total").num > DEFAULT_PAGE_SIZE) }

\* the manager constructed, over one of the given registries and stored lists
InitManager(states) ==
  /\ instance = TRUE
  /\ \E s \in states : registry = s[1] /\ accounts = s[2]
  /\ history = [registriesCreated |-> 1,
                builtInCalls |-> << <<OneApi, "return">>, <<Cubence, "return">> >>,
                registered |-> {a \in AdapterIds : a \in Range(getAllAdapters(registry))},
                registerCalls |-> Len(getAllAdapters(registry)) - 2,
                getInstanceCalls |-> 1, managerCreated |-> TRUE]
  /\ last = NoCall
  /\ detect = IdleDetect
  /\ call = IdleCall
  /\ manager = <<>>
  /\ background = IdleBackground

\* an operation of AccountManager is called and runs to its first await
ManagerCall(op, accountId, params) ==
  /\ manager = <<>>
  /\ \E r \in {managerCalled(registry, op, accountId, params)} :
        /\ manager' = <<r.manager>>
        /\ call' = r.call
        /\ detect' = r.detect
  /\ UNCHANGED <<instance, registry, history, last, accounts, background>>

\* the awaited detectSiteType has resolved and the operation runs on
ManagerDetected ==
  /\ manager # <<>>
  /\ manager[1].pc = "detect"
  /\ detect.pc = "done"
  /\ \E r \in {managerDetected(registry, manager[1], detect)} :
        /\ manager' = <<r.manager>>
        /\ call' = r.call
  /\ UNCHANGED <<instance, registry, history, last, detect, accounts, background>>

\* the call of an adapter that is not built in settles
ThirdPartyReturn ==
  /\ call.pc = "thirdParty"
  /\ \E r \in ThirdPartyResults(call.op) : call' = Settle(call, r)
  /\ UNCHANGED <<registryVars, accounts, background, manager>>

\* the awaited validateConnection or autoDetectAccount has settled and the
\* operation runs on
ManagerAwaited ==
  /\ manager # <<>>
  /\ manager[1].pc = "adapter"
  /\ call.pc = "done"
  /\ \E now \in Clock :
        manager' = << IF manager[1].op = "autoDetectAccount"
                      THEN autoDetectAccountReturned(manager[1], call)
                      ELSE validateReturned(manager[1], call, now) >>
  /\ UNCHANGED <<registryVars, call, accounts, background>>

\* what the balance or usage call t can step to when the fetch, the message
\* or the adapter it awaits settles
TaskSteps(t) ==
  IF t.pc = "thirdParty" THEN {Settle(t, r) : r \in ThirdPartyResults(t.op)}
  ELSE IF t.pc = "pageFetchJson"
       THEN {CubenceReply(t, reply) : reply \in Replies(t.pc, CubencePath(t.op))}
  ELSE IF t.pc \in Endpoints
       THEN {IF t.adapter = OneApi THEN OneApiAnswer(t, a) ELSE CubenceAnswer(t, a) :
               a \in ManagerAnswers(t.pc)}
  ELSE {}

\* a call handed to Promise.all steps, and the operation awaiting it runs on
\* when that settles the Promise.all
TaskAnswer(i, j) ==
  /\ i \in 1..Len(manager)
  /\ manager[i].pc = "Promise.all"
  /\ j \in 1..Len(manager[i].tasks)
  /\ \E t \in TaskSteps(manager[i].tasks[j]), now \in Clock :
        \E m \in {[manager[i] EXCEPT !.tasks[j] = t]} :
           manager' = refreshAllSettled(
                        [manager EXCEPT ![i] = IF m.op = "refreshAccount"
                                               THEN refreshJoined(m, now)
                                               ELSE validateJoined(m, now)])
  /\ UNCHANGED <<registryVars, call, accounts, background>>

\* the awaited storage.get settles and the operation runs on
StorageGet(i) ==
  /\ i \in 1..Len(manager)
  /\ manager[i].pc \in {"load", "storage.get"}
  /\ \E got \in BOOLEAN, now \in Clock :
        manager' =
          IF manager[i].op = "refreshAllAccounts"
          THEN refreshAllSettled(refreshAllStarted(manager[i], getAllAccounts(accounts, got)))
          ELSE refreshAllSettled(
                 [manager EXCEPT ![i] = storageGot(registry, @, accounts, got, now)])
  /\ UNCHANGED <<registryVars, call, accounts, background>>

\* the awaited storage.set settles, having stored the list or not, and the
\* operation runs on
StorageSet(i) ==
  /\ i \in 1..Len(manager)
  /\ manager[i].pc = "storage.set"
  /\ \E saved \in BOOLEAN :
        /\ accounts' = IF saved THEN manager[i].read ELSE accounts
        /\ manager' = refreshAllSettled([manager EXCEPT ![i] = storageSet(@, saved)])
  /\ UNCHANGED <<registryVars, call, background>>

NextManager ==
  \/ \E params \in UrlInputs : ManagerCall("autoDetectAccount", 0, params)
  \/ \E params \in ParamInputs : ManagerCall("validateAndSaveAccount", 0, params)
  \/ \E params \in ParamInputs : ManagerCall("validateAndUpdateAccount", 1, params)
  \/ \E id \in {0, 3} : ManagerCall("validateAndUpdateAccount", id, FilledForm)
  \/ \E outcome \in {"truthy", "falsy", "throw"} : DetectResume(outcome)
  \/ ManagerDetected
  \/ HttpAnswer
  \/ ExtensionReply
  \/ TokenAnswer
  \/ StatusAnswer
  \/ ThirdPartyReturn
  \/ ManagerAwaited
  \/ \E j \in 1..2 : TaskAnswer(1, j)
  \/ StorageGet(1)
  \/ StorageSet(1)

SpecManager == InitManager(ManagerStates) /\ [][NextManager]_vars

\* the stored lists refreshAccount runs over
RefreshStates == { <<ManagerRegistry, StoredAccounts>> }

\* an id no stored account has
MissingId == Len(StoredAccounts) + 1

NextRefresh ==
  \/ \E id \in 1..MissingId : ManagerCall("refreshAccount", id, FilledForm)
  \/ \E j \in 1..2 : TaskAnswer(1, j)
  \/ StorageGet(1)
  \/ StorageSet(1)

SpecRefresh == InitManager(RefreshStates) /\ [][NextRefresh]_vars

\* the stored list refreshAllAccounts runs over: the account of a one-api
\* site, of a site type no adapter has, of an adapter that is not built in
RefreshAllStates ==
  { <<ManagerRegistry, <<StoredAccounts[1], StoredAccounts[4], StoredAccounts[5]>> >> }

NextRefreshAll ==
  \/ ManagerCall("refreshAllAccounts", 0, FilledForm)
  \/ \E i \in 2..(Len(StoredAccounts) + 1), j \in 1..2 : TaskAnswer(i, j)
  \/ \E i \in 1..(Len(StoredAccounts) + 1) : StorageGet(i)
  \/ \E i \in 2..(Len(StoredAccounts) + 1) : StorageSet(i)

SpecRefreshAll == InitManager(RefreshAllStates) /\ [][NextRefreshAll]_vars

\* accountStorage.deleteAccount(id) is called while a refreshAccount call is
\* in flight, and runs to its storage.get
DeleteCall(id) ==
  /\ Len(manager) = 1
  /\ manager' = Append(manager, [IdleManager EXCEPT !.op = "deleteAccount",
                                                    !.pc = "storage.get",
                                                    !.accountId = id])
  /\ UNCHANGED <<registryVars, call, accounts, background>>

NextDelete ==
  \/ \E id \in 1..MissingId : ManagerCall("refreshAccount", id, FilledForm)
  \/ \E id \in 1..MissingId : DeleteCall(id)
  \/ \E j \in 1..2 : TaskAnswer(1, j)
  \/ \E i \in 1..2 : StorageGet(i)
  \/ \E i \in 1..2 : StorageSet(i)

SpecDelete == InitManager(RefreshStates) /\ [][NextDelete]_vars

\* the totals a log endpoint reports: none, less than a page, whole pages,
\* a part of a page at the end, as many pages as fetchTodayUsage asks for,
\* more than that
UsageTotals ==
  {0, 1, DEFAULT_PAGE_SIZE, DEFAULT_PAGE_SIZE + 1, 2 * DEFAULT_PAGE_SIZE + 50,
   MAX_PAGES * DEFAULT_PAGE_SIZE, MAX_PAGES * DEFAULT_PAGE_SIZE + 1}

\* the answer of a log endpoint holding total items to the request for a
\* page: the items of that page, DEFAULT_PAGE_SIZE of them while there are
\* that many left, and the total
LogPage(total, page) ==
  LET left == total - DEFAULT_PAGE_SIZE * (page - 1)
      n == IF left <= 0 THEN 0 ELSE IF left >= DEFAULT_PAGE_SIZE THEN DEFAULT_PAGE_SIZE ELSE left
  IN [kind |-> "response", status |-> 200,
      body |-> Envelope(TRUE, JsUndefined,
                        [kind |-> "object", items |-> JsArray(n), total |-> JsNumber(total)])]

\* the total the log endpoint reported in the answer the call read last
ReportedTotal == call.remote.body.data.total.num

\* a log endpoint that holds total items answers the page getUsageStats of
\* OneApiAdapter asked for
LogServerAnswer(total) ==
  /\ call.adapter = OneApi
  /\ call.op = "getUsageStats"
  /\ call.pc = "/api/log/self"
  /\ IF call.remote.kind = "none" THEN TRUE ELSE ReportedTotal = total
  /\ call' = OneApiAnswer(call, LogPage(total, call.usage.page))
  /\ UNCHANGED <<registryVars, accounts, background, manager>>

NextUsage ==
  \/ \E k \in AuthKinds : AdapterCall(OneApi, "getUsageStats", [siteUrl |-> SiteUrl, auth |-> k])
  \/ \E total \in UsageTotals : LogServerAnswer(total)

SpecUsage == InitRegistry /\ [][NextUsage]_vars

\* what a log endpoint that does not keep to the protocol can answer to the
\* request for a page: a failure, or a body whose total is missing, stays
\* the same or is always one item beyond the page asked for, with no items
\* or with more items than a page holds
LogAnswers(page) ==
  { [kind |-> "reject", status |-> 0, body |-> Unparseable],
    [kind |-> "response", status |-> 500, body |-> Unparseable],
    [kind |-> "response", status |-> 200, body |-> Envelope(FALSE, JsUndefined, JsUndefined)],
    [kind |-> "response", status |-> 200, body |-> Envelope(TRUE, JsUndefined, JsNull)] }
  \cup { [kind |-> "response", status |-> 200,
          body |-> Envelope(TRUE, JsUndefined,
                            [kind |-> "object", items |-> items, total |-> total])] :
           items \in {JsUndefined, JsArray(2 * DEFAULT_PAGE_SIZE + 50)},
           total \in {JsUndefined, JsNumber(2 * DEFAULT_PAGE_SIZE + 50),
                      JsNumber(DEFAULT_PAGE_SIZE * page + 1)} }

\* the fetch of the page getUsageStats of OneApiAdapter asked for settles
PageAnswer ==
  /\ call.adapter = OneApi
  /\ call.op = "getUsageStats"
  /\ call.pc = "/api/log/self"
  /\ \E answer \in LogAnswers(call.usage.page) : call' = OneApiAnswer(call, answer)
  /\ UNCHANGED <<registryVars, accounts, background, manager>>

NextPagination ==
  \/ \E k \in AuthKinds : AdapterCall(OneApi, "getUsageStats", [siteUrl |-> SiteUrl, auth |-> k])
  \/ PageAnswer

\* every fetch settles in the end
SpecPagination == InitRegistry /\ [][NextPagination]_vars /\ WF_vars(PageAnswer)

\* the parts of the site URLs handed to getSiteStatus: a scheme or none, a
\* host in any case of letters, and what follows the host
StatusSchemes == {Https, Http, <<>>}

StatusHosts ==
  { CubenceCom, <<"C","U","B","E","N","C","E",".","c","o","m">>,
    <<"f","o","o">> \o DotCubenceCom, <<"F","o","o",".","b","a","r",".","C","u","b","e","n","c","e",".","C","O","M">>,
    <<"n","o","t">> \o CubenceCom, CubenceCom \o <<".","e","v","i","l",".","i","o">>,
    <<"c","u","b","e","n","c","e",".","c","o">>, <<"x","-">> \o CubenceCom,
    <<"a",".","i","o">> }

StatusTails ==
  { <<>>, <<"/">>, <<"/","a","n","y","t","h","i","n","g">>, <<":","8","4","4","3","/","x">>,
    <<"?","q","=">> \o CubenceCom, <<"#">> \o DotCubenceCom, <<"/">> \o CubenceCom }

StatusUrls ==
  {s \o h \o t : s \in StatusSchemes, h \in StatusHosts, t \in StatusTails}
  \cup {<<" ">> \o Https \o h \o <<"\t">> : h \in StatusHosts}
  \cup {<<>>, Https, Http}

\* getSiteStatus(siteUrl) of CubenceAdapter is called and returns: it awaits
\* nothing
GetSiteStatus(siteUrl) ==
  /\ \E status \in {CubenceGetSiteStatus(siteUrl)} :
        last' = [NoCall EXCEPT !.op = "getSiteStatus", !.adapter = Cubence,
                               !.input = JsString(siteUrl), !.outcome = "return",
                               !.result = IF status.detected
                                          THEN [kind |-> "object", detected |-> JsBoolean(TRUE),
                                                host |-> JsString(status.host)]
                                          ELSE JsNull]
  /\ UNCHANGED <<instance, registry, history, detect, call, accounts, background, manager>>

NextSiteStatus == \E siteUrl \in StatusUrls : GetSiteStatus(siteUrl)

SpecSiteStatus == InitRegistry /\ [][NextSiteStatus]_vars

(***************************************************************************)
(* Operations of the background script                                     *)
(***************************************************************************)
\* the request ids of the messages; Date.now() gives two requests of one
\* millisecond the same id
RequestIds == {"r1", "r2"}

\* a pageFetchJson or autoDetectSite message arrives and its handler runs to
\* its first await
Receive(action, requestId) ==
  /\ Len(background.handlers) < MaxRequests
  /\ background' = handlerCalled(background, action, requestId)
  /\ UNCHANGED <<registryVars, call, accounts, manager>>

\* chrome.windows.create settles
WindowCreated(i, outcome) ==
  /\ i \in 1..Len(background.handlers)
  /\ background.handlers[i].pc = "create"
  /\ background' = windowCreated(background, i, outcome)
  /\ UNCHANGED <<registryVars, call, accounts, manager>>

\* the callback of chrome.tabs.get runs
TabsGot(i) ==
  /\ i \in 1..Len(background.handlers)
  /\ background.handlers[i].polling
  /\ background' = tabsGot(background, i)
  /\ UNCHANGED <<registryVars, call, accounts, manager>>

\* the page-load timeout runs out
TimeoutFired(i) ==
  /\ i \in 1..Len(background.handlers)
  /\ background.handlers[i].timer = "armed"
  /\ background' = timeoutFired(background, i)
  /\ UNCHANGED <<registryVars, call, accounts, manager>>

\* the second waited after the tab was seen complete is over
GraceFired(i) ==
  /\ i \in 1..Len(background.handlers)
  /\ background.handlers[i].grace = "armed"
  /\ background' = graceFired(background, i)
  /\ UNCHANGED <<registryVars, call, accounts, manager>>

\* chrome.scripting.executeScript or chrome.tabs.sendMessage settles: it
\* throws, gives nothing, gives a failure, or gives a result
ScriptAnswered(i, result) ==
  /\ i \in 1..Len(background.handlers)
  /\ background.handlers[i].pc \in {"executeScript", "sendMessage"}
  /\ background' = scriptAnswered(background, i, result)
  /\ UNCHANGED <<registryVars, call, accounts, manager>>

\* chrome.windows.remove settles
WindowsRemoved(i) ==
  /\ i \in 1..Len(background.handlers)
  /\ background.handlers[i].pc \in {"remove", "cleanup"}
  /\ background' = windowsRemoved(background, i)
  /\ UNCHANGED <<registryVars, call, accounts, manager>>

\* the page of the window w has loaded
TabCompletes(w) ==
  /\ w \in DOMAIN background.windows
  /\ background.windows[w] = "loading"
  /\ background' = [background EXCEPT !.windows[w] = "complete"]
  /\ UNCHANGED <<registryVars, call, accounts, manager>>

\* the user closes the window w
UserCloses(w) ==
  /\ w \in DOMAIN background.windows
  /\ background' = windowRemoved(background, w)
  /\ UNCHANGED <<registryVars, call, accounts, manager>>

\* what the handler i can do
HandlerStep(i) ==
  \/ \E outcome \in {"throw", "no tab", "window"} : WindowCreated(i, outcome)
  \/ TabsGot(i)
  \/ TimeoutFired(i)
  \/ GraceFired(i)
  \/ \E result \in {"throw", "none", "failed", "ok"} : ScriptAnswered(i, result)
  \/ WindowsRemoved(i)

NextBackground ==
  \/ \E action \in {"pageFetchJson", "autoDetectSite"}, requestId \in RequestIds \cup {""} :
        Receive(action, requestId)
  \/ \E i \in 1..MaxRequests : HandlerStep(i)
  \/ \E w \in 1..MaxRequests : TabCompletes(w)
  \/ \E w \in 1..MaxRequests : UserCloses(w)

SpecBackground == InitRegistry /\ [][NextBackground]_vars

\* the browser runs every timer and every callback that is due, and settles
\* every call of its API; a page may load for ever
SpecBackgroundFair ==
  SpecBackground /\ \A i \in 1..MaxRequests : WF_vars(HandlerStep(i))

(***************************************************************************)
(* Properties of the registry                                              *)
(***************************************************************************)
\* the adapters the registry holds: those getAllAdapters or getAdapter can return
HeldAdapters ==
  Range(MapValues(registry.adaptersById)) \cup Range(MapValues(registry.adaptersBySiteType))

\* the trimmed, lower-cased form of a site-type string, by positions: the
\* characters from the first to the last one that is no whitespace
TrimmedLowerCased(v) ==
  LET s == IF v.kind = "string" THEN v.chars ELSE <<>>
      keep == {i \in 1..Len(s) : s[i] \notin Whitespace}
      lo == CHOOSE i \in keep : \A j \in keep : i <= j
      hi == CHOOSE i \in keep : \A j \in keep : i >= j
  IN IF keep = {} THEN <<>>
     ELSE [i \in 1..(hi - lo + 1) |-> toLowerCaseChar(s[lo + i - 1])]

\* the site-type keys each adapter answers for
SiteTypeKeysOf ==
  [a \in AdapterIds |->
     {TrimmedLowerCased(JsString(AdapterPool[a].supportedSiteTypes[i])) :
        i \in 1..Len(AdapterPool[a].supportedSiteTypes)}]

SiteTypeKeys(a) == SiteTypeKeysOf[a]

\* the trimmed, lower-cased form of each getAdapter input
InputKey == [v \in SiteTypeInputs |-> TrimmedLowerCased(v)]

\* C1: after any sequence of registerAdapter calls, failing ones included, no
\* two adapters the registry holds have the same metadata.id, every site-type
\* key of the registry is normalized and maps to exactly one adapter, and two
\* distinct adapters whose registration succeeded answer for disjoint keys
C1_UniqueIdsAndSiteTypes ==
  /\ \A a, b \in HeldAdapters : a # b => AdapterPool[a].id # AdapterPool[b].id
  /\ \A i, j \in 1..Len(registry.adaptersBySiteType) :
       i # j => registry.adaptersBySiteType[i].key # registry.adaptersBySiteType[j].key
  /\ \A i \in 1..Len(registry.adaptersBySiteType) :
       registry.adaptersBySiteType[i].key =
         TrimmedLowerCased(JsString(registry.adaptersBySiteType[i].key))
  /\ \A a, b \in history.registered : a # b => SiteTypeKeys(a) \cap SiteTypeKeys(b) = {}
  /\ \A a \in history.registered : \A k \in SiteTypeKeys(a) :
       getAdapter(registry, JsString(k)) = a

\* a registration failed on a conflict while three adapters are registered
C1_Witness ==
  /\ last.op = "registerAdapter"
  /\ last.error \in {"duplicate-id", "site-type"}
  /\ Cardinality(history.registered) >= 3

\* the four conditions under which registerAdapter(a) must throw, in the
\* state before the call
MustRejectRegistration(a) ==
  \/ AdapterPool[a].id = <<>>
  \/ \E b \in Range(getAllAdapters(registry)) \cup history.registered :
       AdapterPool[b].id = AdapterPool[a].id
  \/ \E k \in SiteTypeKeys(a) :
       \/ \E b \in history.registered : k \in SiteTypeKeys(b)
       \/ MapHas(registry.adaptersBySiteType, k)
  \/ \E cap \in AdapterPool[a].capabilities :
       ~(RequiredMethods(cap) \subseteq AdapterPool[a].methods)

\* C2: registerAdapter(adapter) throws AdapterRegistrationError, in the call
\* itself, whenever the id is empty, the id is already registered, one of its
\* normalized site types is already claimed or a declared capability lacks its
\* method; it returns normally only when none of the four holds
C2_RegisterAdapterThrows ==
  [][ history'.registerCalls = history.registerCalls + 1 =>
        /\ last'.op = "registerAdapter"
        /\ last'.outcome \in {"return", "AdapterRegistrationError"}
        /\ MustRejectRegistration(last'.adapter) =>
             last'.outcome = "AdapterRegistrationError"
        /\ last'.outcome = "return" => ~MustRejectRegistration(last'.adapter) ]_vars

\* a registration was rejected for a site type that a registered adapter claims
C2_Witness ==
  /\ last.op = "registerAdapter"
  /\ last.error = "site-type"
  /\ \E b \in history.registered \ {last.adapter} :
       SiteTypeKeys(b) \cap SiteTypeKeys(last.adapter) # {}

\* C3: every adapter the registry holds implements the method of every
\* capability it declares (TOKEN_MANAGEMENT: all four CRUD methods), and an
\* adapter declaring a capability without its method is never held
C3_CapabilityImpliesMethod ==
  /\ \A a \in HeldAdapters : \A cap \in AdapterPool[a].capabilities :
       RequiredMethods(cap) \subseteq AdapterPool[a].methods
  /\ \A a \in AdapterIds :
       (/\ "TOKEN_MANAGEMENT" \in AdapterPool[a].capabilities
        /\ ~(TokenCrudMethods \subseteq AdapterPool[a].methods))
       => /\ a \notin HeldAdapters
          /\ a \notin history.registered
          /\ (last.op = "registerAdapter" /\ last.adapter = a)
               => last.outcome = "AdapterRegistrationError"

\* an adapter declaring TOKEN_MANAGEMENT with three of the four CRUD methods
\* was refused while one with all four is held
C3_Witness ==
  /\ last.op = "registerAdapter"
  /\ "TOKEN_MANAGEMENT" \in AdapterPool[last.adapter].capabilities
  /\ Cardinality(TokenCrudMethods \cap AdapterPool[last.adapter].methods) = 3
  /\ last.error = "capability"
  /\ \E a \in HeldAdapters \cap ThirdParty :
       "TOKEN_MANAGEMENT" \in AdapterPool[a].capabilities

\* C4: after any number of getInstance() calls, the one made by the
\* AccountManager constructor included, one registry has been created, the
\* OneApi and Cubence adapters have been constructed and registered exactly
\* once each, and no getInstance call raised an error
C4_SingletonBuiltIns ==
  /\ ~instance => history.registriesCreated = 0 /\ history.builtInCalls = <<>>
  /\ instance =>
       /\ history.registriesCreated = 1
       /\ history.builtInCalls = << <<OneApi, "return">>, <<Cubence, "return">> >>
       /\ {OneApi, Cubence} \subseteq history.registered
       /\ getAdapter(registry, JsString(AdapterPool[OneApi].id)) = OneApi
       /\ getAdapter(registry, JsString(AdapterPool[Cubence].id)) = Cubence
  /\ last.op = "getInstance" => last.outcome = "return"

\* getInstance() returned for the third time, once from the AccountManager
\* constructor, after a third-party registration
C4_Witness ==
  /\ last.op = "getInstance"
  /\ history.getInstanceCalls >= 3
  /\ history.managerCreated
  /\ history.registerCalls >= 1

\* C5: getAdapter(siteType) never throws; it returns the adapter registered
\* for the trimmed, lower-cased input, so inputs that differ only in case or
\* surrounding whitespace get the same adapter, and null when no adapter
\* claims that key (empty, null and undefined input included)
C5_GetAdapterNormalizedLookup ==
  /\ last.op = "getAdapter" =>
       /\ last.outcome = "return"
       /\ \A a \in history.registered :
            InputKey[last.input] \in SiteTypeKeys(a) => last.result = a
       /\ last.result # NoAdapter =>
            /\ last.result \in HeldAdapters
            /\ InputKey[last.input] \in SiteTypeKeys(last.result)
       /\ InputKey[last.input] = <<>> => last.result = NoAdapter
       /\ \A t \in SiteTypeInputs :
            InputKey[t] = InputKey[last.input] => getAdapter(registry, t) = last.result

\* an input in other case and with surrounding whitespace found its adapter
C5_Witness ==
  /\ last.op = "getAdapter"
  /\ last.input.chars # InputKey[last.input]
  /\ last.result \in ThirdParty

\* the adapters of the snapshot that implement getSiteStatus, in order
Probeable(adapters) ==
  SelectSeq(adapters, LAMBDA a : "getSiteStatus" \in AdapterPool[a].methods)

IsPrefix(p, q) == Len(p) <= Len(q) /\ \A i \in 1..Len(p) : p[i] = q[i]

\* C6: detectSiteType probes the adapters of the registry one at a time in
\* registration order, skipping those without getSiteStatus; nothing is probed
\* after the first truthy answer, whose adapter's id is the result; a probe
\* that throws counts as no match and the next adapter is probed; the call
\* resolves to null when nothing matched and never rejects
C6_DetectFirstMatch ==
  LET probes == [i \in 1..Len(detect.log) |-> detect.log[i][1]]
      probeable == Probeable(detect.adapters)
      matched == \E i \in 1..Len(detect.log) : detect.log[i][2] = "truthy"
  IN /\ IsPrefix(detect.adapters, getAllAdapters(registry))
     /\ IsPrefix(probes, probeable)
     /\ \A i \in 1..Len(detect.log) : detect.log[i][2] = "truthy" => i = Len(detect.log)
     /\ detect.pc = "await" =>
          /\ ~matched
          /\ Len(detect.log) < Len(probeable)
          /\ detect.adapters[detect.idx] = probeable[Len(detect.log) + 1]
     /\ detect.pc = "done" =>
          /\ detect.settled = "resolved"
          /\ matched => detect.result = AdapterPool[detect.log[Len(detect.log)][1]].id
          /\ ~matched => detect.result = <<>> /\ Len(detect.log) = Len(probeable)

\* a call skipped an adapter without getSiteStatus, had a probe throw and
\* returned the id of a later adapter
C6_Witness ==
  /\ detect.pc = "done"
  /\ detect.result # <<>>
  /\ Len(Probeable(detect.adapters)) < Len(detect.adapters)
  /\ \E i \in 1..Len(detect.log) : detect.log[i][2] = "throw"
  /\ \E i \in 1..Len(detect.adapters) :
       /\ "getSiteStatus" \notin AdapterPool[detect.adapters[i]].methods
       /\ \E j \in (i + 1)..Len(detect.adapters) :
            detect.adapters[j] = detect.log[Len(detect.log)][1]

\* C7: assertAdapterCapability(adapter, capability) raises NotSupportedError
\* when the adapter is null or does not declare the capability and returns
\* otherwise; the same arguments give the same outcome, and no state changes
C7_AssertAdapterCapability ==
  /\ [](last.op = "assertAdapterCapability" =>
          /\ last.outcome \in {"return", "NotSupportedError"}
          /\ last.outcome = "NotSupportedError" <=>
               \/ last.adapter = NoAdapter
               \/ last.capability \notin AdapterPool[last.adapter].capabilities)
  /\ [][ last'.op = "assertAdapterCapability" =>
           /\ UNCHANGED <<instance, registry, history, detect, call, accounts, background, manager>>
           /\ (/\ last.op = "assertAdapterCapability"
               /\ last'.adapter = last.adapter
               /\ last'.capability = last.capability) => last'.outcome = last.outcome ]_vars

\* the guard refused a registered adapter that lacks the capability
C7_Witness ==
  /\ last.op = "assertAdapterCapability"
  /\ last.adapter \in HeldAdapters
  /\ last.capability \notin AdapterPool[last.adapter].capabilities
  /\ last.outcome = "NotSupportedError"

(***************************************************************************)
(* Properties of the built-in adapters                                     *)
(***************************************************************************)
\* the auth kind each built-in adapter accepts
AcceptedAuthKind == IF call.adapter = OneApi THEN "one-api-token" ELSE "cookie"

\* balance, usage, token CRUD, model listing and pricing
CredentialedOperations ==
  {"getAccountBalance", "getUsageStats", "getAvailableModels", "getModelPricing"}
  \cup TokenCrudMethods

\* v.field when v has that field
Field(v, field) == IF field \in DOMAIN v THEN v[field] ELSE [kind |-> "missing"]

NonEmptyText(v) == v.kind = "string" /\ v.chars # <<>>

\* C8: a credentialed operation (getAccountBalance, getUsageStats, token CRUD,
\* model listing and pricing) of a built-in adapter, called with an auth.kind
\* the adapter does not accept, rejects with an Error whose message names the
\* accepted kind, having issued no HTTP request and no extension message
C8_WrongAuthKindRejects ==
  (call.op \in CredentialedOperations /\ call.auth # AcceptedAuthKind) =>
     /\ call.pc = "done"
     /\ call.settled = "rejected"
     /\ call.error.name = "Error"
     /\ AcceptedAuthKind \in Range(call.error.message)
     /\ call.requests = 0
     /\ call.messages = 0

\* Cubence's getUsageStats was called with a one-api token and rejected
C8_Witness ==
  /\ call.adapter = Cubence
  /\ call.op = "getUsageStats"
  /\ call.auth = "one-api-token"
  /\ call.settled = "rejected"

\* the remote check behind validateConnection succeeded: OneApi got a 2xx
\* answer whose body parses to {success: true, data}; Cubence got, from the
\* direct fetch or from the page fetch, an overview {success: true, data}
\* with a user name
RemoteCheckSucceeded ==
  LET direct == /\ call.remote.kind = "response"
                /\ call.remote.status \in 200..299
                /\ call.remote.body.kind = "object"
      overview == IF call.remote.kind = "response" THEN call.remote.body
                  ELSE Field(call.remote, "data")
  IN IF call.adapter = OneApi
     THEN /\ direct
          /\ call.remote.body.success.bool
          /\ call.remote.body.data.kind # "undefined"
     ELSE /\ \/ direct
             \/ /\ call.remote.kind = "object"
                /\ Field(call.remote, "success") = JsBoolean(TRUE)
          /\ overview.kind = "object"
          /\ Field(overview, "success") = JsBoolean(TRUE)
          /\ Field(overview, "data").kind = "object"
          /\ Field(Field(overview, "data"), "user").kind = "object"
          /\ NonEmptyText(Field(Field(Field(overview, "data"), "user"), "username"))

\* C9: validateConnection of a built-in adapter never rejects; it resolves to
\* ok=false with a non-empty message for a wrong auth.kind (before any
\* request), a failing remote call, a non-2xx answer or a malformed response,
\* and to ok=true only when the remote check succeeded
C9_ValidateConnectionResolves ==
  call.op = "validateConnection" =>
     /\ call.settled # "rejected"
     /\ call.pc = "done" =>
          /\ call.settled = "resolved"
          /\ ~call.value.ok => NonEmptyText(call.value.message)
          /\ call.auth # AcceptedAuthKind =>
               ~call.value.ok /\ call.requests = 0 /\ call.messages = 0
          /\ call.value.ok => RemoteCheckSucceeded

\* Cubence's validateConnection fell back to the page fetch, which failed
\* without an error text, and resolved to ok=false
C9_Witness ==
  /\ call.op = "validateConnection"
  /\ call.adapter = Cubence
  /\ call.pc = "done"
  /\ call.messages = 1
  /\ call.remote.kind = "object"
  /\ ~NonEmptyText(Field(call.remote, "error"))
  /\ ~call.value.ok

\* C10: autoDetectAccount of a built-in adapter never rejects; whatever the
\* extension message, the token fetch and the status fetch give, it resolves,
\* and a result that is no success has success=false and a non-empty error;
\* a success carries a user name
C10_AutoDetectResolves ==
  call.op = "autoDetectAccount" =>
     /\ call.settled # "rejected"
     /\ call.pc = "done" =>
          /\ call.settled = "resolved"
          /\ call.value.success \in BOOLEAN
          /\ ~call.value.success => NonEmptyText(call.value.error)
          /\ call.tokenPc = "rejected" => ~call.value.success
          /\ call.value.success =>
               /\ NonEmptyText(call.value.data.username)
               /\ call.adapter = OneApi =>
                    /\ call.tokenPc = "fulfilled"
                    /\ call.statusPc = "fulfilled"
                    /\ NonEmptyText(call.value.data.accessToken)

\* OneApi's autoDetectAccount resolved to a failure when the token request
\* threw while the status request was still pending
C10_Witness ==
  /\ call.op = "autoDetectAccount"
  /\ call.adapter = OneApi
  /\ call.pc = "done"
  /\ call.tokenPc = "rejected"
  /\ call.statusPc = "/api/status"
  /\ ~call.value.success

(***************************************************************************)
(* Properties of the account manager                                       *)
(***************************************************************************)
\* the operation of AccountManager that was called
Called == IF manager = <<>> THEN IdleManager ELSE manager[1]

\* C11: autoDetectAccount turns every failure after the site type is
\* resolved (no adapter for it, an adapter without AUTO_DETECT, an adapter
\* result with success=false, an adapter that throws) into a result with
\* success=false, a non-empty error and a detailedError
C11_AutoDetectFailureNormalized ==
  (Called.op = "autoDetectAccount" /\ Called.pc = "done" /\ Called.siteType # <<>>) =>
     /\ Called.settled = "resolved"
     /\ ~Called.value.success =>
          /\ NonEmptyText(Called.value.error)
          /\ Called.value.detailedError.kind = "object"

\* what the save and update flows require before they write: a site url and
\* a site name that are not blank, an adapter for the site type, a
\* validateConnection that resolved to ok, a user name, and a balance and a
\* usage call that both resolved
SaveConditions ==
  /\ trim(Called.params.url) # <<>>
  /\ trim(Called.params.siteName) # <<>>
  /\ Called.adapter # NoAdapter
  /\ getAdapter(registry, JsString(Called.siteType)) = Called.adapter
  /\ call.op = "validateConnection"
  /\ call.settled = "resolved"
  /\ call.value.ok
  /\ Called.username # <<>>
  /\ Len(Called.tasks) = 2
  /\ \A j \in 1..2 : Called.tasks[j].settled = "resolved"

SaveFlows == {"validateAndSaveAccount", "validateAndUpdateAccount"}

\* C12: validateAndSaveAccount and validateAndUpdateAccount change the stored
\* accounts only after the trimmed url and site name were non-empty, an
\* adapter existed for the site type, validateConnection resolved to ok, a
\* user name was there and neither the balance nor the usage call failed; a
\* run where one of these fails ends with success=false, and the account it
\* stores carries the user name and is healthy
C12_WriteOnlyAfterValidation ==
  /\ [][(Called.op \in SaveFlows /\ accounts' # accounts) =>
          /\ SaveConditions
          /\ Called.pc = "storage.set"
          /\ \E k \in 1..Len(accounts') :
                /\ accounts'[k].id = Called.accountId
                /\ accounts'[k].health_status = "healthy"
                /\ accounts'[k].account_info.username = JsString(Called.username)]_vars
  /\ []((Called.op \in SaveFlows /\ Called.pc = "done" /\ ~SaveConditions) =>
          /\ Called.settled = "resolved"
          /\ ~Called.value.success)

\* validateAndSaveAccount stored a third account and resolved to success
C12_Witness ==
  /\ Called.op = "validateAndSaveAccount"
  /\ Called.pc = "done"
  /\ Called.value.success
  /\ Len(accounts) = 3
  /\ accounts[3].id = Called.accountId

\* the save or update flow was given no API key and an access token or a
\* user id that is empty, or a user id that is no number
TokenParamsMissing ==
  /\ Called.op \in SaveFlows
  /\ trim(OrEmpty(Called.params.apiKey)) = <<>>
  /\ \/ trim(OrEmpty(Called.params.accessToken)) = <<>>
     \/ trim(OrEmpty(Called.params.userId)) = <<>>
     \/ Number(trim(OrEmpty(Called.params.userId))).kind = "NaN"

\* a request went to the network on behalf of the operation: the status
\* request of a getSiteStatus probe that fetches, a fetch or an extension
\* message of the adapter call awaited, or of a balance or usage call
NetworkCallMade ==
  \/ \E k \in 1..Len(detect.log) : AdapterPool[detect.log[k][1]].siteStatus = "network"
  \/ /\ detect.pc = "await"
     /\ AdapterPool[detect.adapters[detect.idx]].siteStatus = "network"
  \/ call.requests > 0 \/ call.messages > 0
  \/ call.pc \in Endpoints \cup {"autoDetectSite", "pageFetchJson", "Promise.all"}
  \/ Called.tasks # <<>>

\* C13: for an account that is not a Cubence account, with no apiKey,
\* validateAndSaveAccount and validateAndUpdateAccount called with an empty
\* accessToken, an empty userId or a userId that is no number fail, and no
\* network call was made, whatever the siteType parameter was
C13_MissingTokenFailsBeforeNetwork ==
  (/\ TokenParamsMissing
   /\ Called.siteType # <<>>
   /\ Called.adapter # NoAdapter
   /\ Called.siteType # CubenceAdapter.id) =>
     /\ ~NetworkCallMade
     /\ Called.pc = "done"
     /\ Called.settled = "resolved"
     /\ ~Called.value.success

\* the account of the flow is stored as the flow built it
AccountStored ==
  \E k \in 1..Len(accounts) :
     /\ accounts[k].id = Called.accountId
     /\ accounts[k].account_info = Called.update.account_info
     /\ accounts[k].last_sync_time = Called.update.last_sync_time

\* C14: validateAndSaveAccount and validateAndUpdateAccount never reject:
\* whether site-type detection, credential building, validateConnection, the
\* balance or usage call or the storage write fails or throws, the promise
\* resolves to a result, which has success=false and a non-empty error on
\* every run that failed; success=true says that the account is stored
C14_SaveNeverRejects ==
  Called.op \in SaveFlows =>
     /\ Called.settled # "rejected"
     /\ Called.pc = "done" =>
          /\ Called.settled = "resolved"
          /\ Called.value.success \in BOOLEAN
          /\ ~Called.value.success => NonEmptyText(Called.value.error)
          /\ Called.value.success => (SaveConditions /\ AccountStored)
          /\ call.settled = "rejected" => ~Called.value.success

\* the usage call of a save flow rejected and the flow resolved to a failure
C14_Witness ==
  /\ Called.op = "validateAndSaveAccount"
  /\ Called.pc = "done"
  /\ Len(Called.tasks) = 2
  /\ Called.tasks[2].settled = "rejected"
  /\ Called.settled = "resolved"
  /\ ~Called.value.success

(***************************************************************************)
(* Properties of the refresh                                               *)
(***************************************************************************)
\* the refreshAccount called has failed: its account, its adapter or its
\* credentials were not there, or its balance or usage call rejected
RefreshFailed ==
  /\ Called.op = "refreshAccount"
  /\ \/ Called.pc # "load" /\ Called.tasks = <<>>
     \/ \E j \in 1..Len(Called.tasks) : Called.tasks[j].settled = "rejected"

\* the fields of an account a failed refresh may write
HealthFields == {"health_status", "last_sync_time", "updated_at"}

RequestClass(answer) ==
  IF answer.kind = "reject" THEN "error"
  ELSE IF answer.kind = "response" /\ ~ResponseOk(answer) THEN "warning"
  ELSE "unknown"

\* the answer to the request of a balance or usage call that rejects in this
\* step: the answer to the fetch, also when the step is the reply to the
\* page fetch that followed it
FailedRequest(j) ==
  IF Called.tasks[j].pc = "pageFetchJson" THEN Called.tasks[j].remote
  ELSE Called'.tasks[j].remote

\* C16: for every stored account of a built-in adapter, a refreshAccount whose
\* balance or usage request fails hands to the storage the health status of
\* the failure's class: "error" for a network failure of the request,
\* "warning" for an answer outside 2xx, "unknown" for any other failure; a
\* refresh that succeeds stores "healthy", and what is stored is that status
C16_HealthStatusByFailureClass ==
  [][Called.op = "refreshAccount" =>
       /\ \A j \in 1..Len(Called.tasks) :
             (/\ Called.pc = "Promise.all"
              /\ Called.adapter \in {OneApi, Cubence}
              /\ Called.tasks[j].settled = "pending"
              /\ Called'.tasks[j].settled = "rejected") =>
                Called'.update.health_status = RequestClass(FailedRequest(j))
       /\ (Called.pc = "Promise.all" /\ Called'.returns = JsBoolean(TRUE)) =>
             Called'.update.health_status = "healthy"
       /\ (Called.pc = "load" /\ Called'.tasks = <<>>) =>
             Called'.update.health_status = "unknown"
       /\ accounts' # accounts =>
             \E k \in 1..Len(accounts') :
                /\ accounts'[k].id = Called.accountId
                /\ accounts'[k].health_status = Called.update.health_status]_vars

\* the refreshAccount calls refreshAllAccounts started
Refreshes == 2..Len(manager)

\* the refreshAccount call k awaits something that can settle, whatever the
\* other calls have come to
CanRunOn(k) ==
  \/ manager[k].pc \in {"load", "storage.get", "storage.set"}
  \/ /\ manager[k].pc = "Promise.all"
     /\ \E j \in 1..Len(manager[k].tasks) : TaskSteps(manager[k].tasks[j]) # {}

\* refreshAllAccounts has started its calls, one per account of the list n
\* accounts long that it read, in the order of the list, and returns only
\* once all have settled, the counts being those of the calls that resolved
\* to true and of the others
AllSettledOver(n) ==
  (Called.op = "refreshAllAccounts" /\ Called.pc # "storage.get") =>
     /\ Len(manager) = n + 1
     /\ Len(Called.read) = n
     /\ \A k \in Refreshes :
           /\ manager[k].op = "refreshAccount"
           /\ manager[k].accountId = Called.read[k - 1].id
           /\ manager[k].settled # "rejected"
           /\ manager[k].pc # "done" => CanRunOn(k)
     /\ Called.pc = "done" =>
           /\ \A k \in Refreshes : manager[k].pc = "done"
           /\ Called.value.success =
                 Cardinality({k \in Refreshes : manager[k].value = JsBoolean(TRUE)})
           /\ Called.value.success + Called.value.failed = n

\* C17 as claimed: refreshAllAccounts starts one refresh per stored account,
\* resolves only after every one of them has settled, with success + failed
\* equal to the number of stored accounts, and a refresh that fails never
\* keeps another from running on
C17_OneRefreshPerStoredAccount == AllSettledOver(Len(accounts))

\* C17: refreshAllAccounts starts one refresh per account getAllAccounts gave
\* it, which is every stored account, or none when reading the storage
\* failed; it resolves only after every one of them has settled, with
\* success + failed equal to the number of accounts it was given, and a
\* refresh that fails never keeps another from running on
C17_OneRefreshPerAccountRead ==
  /\ AllSettledOver(Len(Called.read))
  /\ (Called.op = "refreshAllAccounts" /\ Called.pc # "storage.get") =>
        [k \in 1..Len(Called.read) |-> Called.read[k].id]
           \in {<<>>, [k \in 1..Len(accounts) |-> accounts[k].id]}

\* refreshAllAccounts returned one success and two failures: the refresh of
\* the account without adapter failed, the refresh of the third-party
\* account went through
C17_Witness ==
  /\ Called.op = "refreshAllAccounts"
  /\ Called.pc = "done"
  /\ Called.value = [success |-> 1, failed |-> 2]
  /\ manager[3].value = JsBoolean(FALSE)
  /\ manager[4].value = JsBoolean(TRUE)

(***************************************************************************)
(* Properties of the usage statistics and of Cubence                       *)
(***************************************************************************)
\* getUsageStats of OneApiAdapter has returned what it read from the log
\* endpoint
UsageFetched ==
  /\ call.adapter = OneApi
  /\ call.op = "getUsageStats"
  /\ call.remote.kind = "response"
  /\ call.pc = "done"

\* the usage returned is the sums and the count of n items, 5 of quota, 3
\* prompt tokens and 2 completion tokens each
UsageOfItems(n) ==
  /\ call.settled = "resolved"
  /\ call.value.requestCount = n
  /\ call.value.rawConsumption = 5 * n
  /\ call.value.promptTokens = 3 * n
  /\ call.value.completionTokens = 2 * n

\* the pages are asked for in order: the page awaited is the one after those
\* answered
PagesInOrder ==
  (call.adapter = OneApi /\ call.op = "getUsageStats" /\ call.pc = "/api/log/self") =>
     call.usage.page = call.requests

\* C18 as claimed: against a log endpoint that reports total = T and returns
\* full pages, getUsageStats issues exactly max(1, ceil(T/100)) requests,
\* asks for the pages in order, and returns the sums over all items with
\* requestCount the number of items received
C18_PageRequestsByTotal ==
  /\ PagesInOrder
  /\ UsageFetched =>
        /\ call.requests = IF ReportedTotal = 0 THEN 1
                           ELSE Ceil(ReportedTotal, DEFAULT_PAGE_SIZE)
        /\ UsageOfItems(call.usage.today_requests_count)

\* the number of pages fetchTodayUsage reads of a log of total items
PagesRead(total) ==
  IF total = 0 THEN 1
  ELSE IF Ceil(total, DEFAULT_PAGE_SIZE) > MAX_PAGES THEN MAX_PAGES
  ELSE Ceil(total, DEFAULT_PAGE_SIZE)

\* C18: against a log endpoint that reports total = T and returns full
\* pages, getUsageStats issues exactly min(MAX_PAGES, max(1, ceil(T/100)))
\* requests (3 for T = 250), asks for the pages in order, and returns the sums
\* over the items of those pages, requestCount being their number: T when
\* T is at most MAX_PAGES * 100 (250 for T = 250)
C18_PageRequestsUpToCap ==
  /\ PagesInOrder
  /\ UsageFetched =>
        /\ call.requests = PagesRead(ReportedTotal)
        /\ UsageOfItems(IF ReportedTotal > MAX_PAGES * DEFAULT_PAGE_SIZE
                        THEN MAX_PAGES * DEFAULT_PAGE_SIZE ELSE ReportedTotal)

\* getUsageStats returned after three requests to an endpoint of 250 items
C18_Witness ==
  /\ UsageFetched
  /\ ReportedTotal = 2 * DEFAULT_PAGE_SIZE + 50
  /\ call.requests = 3
  /\ call.value.requestCount = 2 * DEFAULT_PAGE_SIZE + 50

\* the balance object of the overview getAccountBalance of Cubence read, from
\* the direct fetch or from the page fetch
OverviewBalance ==
  LET overview == IF call.remote.kind = "response" THEN call.remote.body
                  ELSE Field(call.remote, "data")
  IN Field(Field(overview, "data"), "balance")

\* r is the integer nearest to v times 1,000,000, the greater of two
NearestMicro(r, v) ==
  LET den == IF "den" \in DOMAIN v THEN v.den ELSE 1
      twice == 2 * (r * den - v.num * 1000000)
  IN -den < twice /\ twice <= den

\* C19: getAccountBalance of Cubence reports as rawBalance the overview's
\* total_balance whenever that is a number, also when total_balance_dollar is
\* there; round(total_balance_dollar * 1,000,000) when total_balance is no
\* number and total_balance_dollar is one (3.5 gives 3,500,000); 0 when
\* neither is a number; balanceUSD is rawBalance / 1,000,000
C19_CubenceRawBalance ==
  (/\ call.adapter = Cubence
   /\ call.op = "getAccountBalance"
   /\ call.pc = "done"
   /\ call.settled = "resolved") =>
     LET raw == Field(OverviewBalance, "total_balance")
         usd == Field(OverviewBalance, "total_balance_dollar")
     IN /\ raw.kind = "number" => call.value.rawBalance = raw.num
        /\ (raw.kind # "number" /\ usd.kind = "number") =>
              NearestMicro(call.value.rawBalance, usd)
        /\ (raw.kind # "number" /\ usd.kind # "number") => call.value.rawBalance = 0
        /\ call.value.balanceUSD = <<call.value.rawBalance, 1000000>>

\* an overview without total_balance and with total_balance_dollar = 3.5
\* gave rawBalance 3,500,000
C19_Witness ==
  /\ call.adapter = Cubence
  /\ call.op = "getAccountBalance"
  /\ call.settled = "resolved"
  /\ Field(OverviewBalance, "total_balance").kind = "missing"
  /\ Field(OverviewBalance, "total_balance_dollar") = JsDecimal(7, 2)
  /\ call.value.rawBalance = 3500000

\* the host of the URL handed to getSiteStatus, lower-cased: the host h of
\* the one way to write the URL, blanks aside, as http:// or https://, h
\* and what follows a host; <<>> when there is none
HostOfInput ==
  LET u == trim(last.input.chars)
      ways == { <<s, h, t>> \in (StatusSchemes \ {<<>>}) \X StatusHosts \X StatusTails :
                  u = s \o h \o t }
  IN IF ways = {} THEN <<>> ELSE toLowerCase((CHOOSE w \in ways : TRUE)[2])

\* h is cubence.com or a name under it
CubenceHost(h) ==
  \/ h = CubenceCom
  \/ /\ Len(h) >= Len(DotCubenceCom)
     /\ SubSeq(h, Len(h) - Len(DotCubenceCom) + 1, Len(h)) = DotCubenceCom

\* C20: getSiteStatus(siteUrl) of Cubence issues no request and never
\* throws; it returns a truthy status with the lower-cased hostname exactly
\* when the hostname of the URL is cubence.com or ends with ".cubence.com",
\* and null for every other URL (notcubence.com too) and for input that is
\* no URL
C20_CubenceSiteStatusByHostname ==
  last.op = "getSiteStatus" =>
     /\ last.outcome = "return"
     /\ call.requests = 0 /\ call.messages = 0 /\ call.pc = "idle"
     /\ IF CubenceHost(HostOfInput)
        THEN /\ Truthy(last.result)
             /\ last.result.host = JsString(HostOfInput)
        ELSE last.result = JsNull

\* getSiteStatus of https://Foo.bar.Cubence.COM/anything gave the host in
\* lower case
C20_Witness ==
  /\ last.op = "getSiteStatus"
  /\ last.input = JsString(Https \o <<"F","o","o",".","b","a","r",".","C","u","b","e","n","c","e",".","C","O","M">>
                           \o <<"/","a","n","y","t","h","i","n","g">>)
  /\ last.result.kind = "object"
  /\ last.result.host = JsString(<<"f","o","o",".","b","a","r">> \o DotCubenceCom)

(***************************************************************************)
(* Properties of the storage under concurrent operations                   *)
(***************************************************************************)
\* the record carries every field of the update
Carries(record, update) ==
  /\ record # JsNull
  /\ \A f \in DOMAIN update : record[f] = update[f]

\* the refreshAccount call k has returned, its updateAccount having saved
\* the list
WroteBack(k) ==
  /\ manager[k].op = "refreshAccount"
  /\ manager[k].pc = "done"
  /\ manager[k].saved = JsBoolean(TRUE)

\* the refreshAccount call k returned true and saved its list, and the
\* stored record of its account does not carry what it wrote
LostUpdate(k) ==
  /\ WroteBack(k)
  /\ manager[k].value = JsBoolean(TRUE)
  /\ ~Carries(getAccountById(accounts, manager[k].accountId), manager[k].update)

\* C21: the read-modify-write of updateAccount is not guarded, and a refresh
\* that returned true loses its update to another refresh only: the stored
\* list is then the list another refreshAccount call wrote back, which that
\* call had read before the update was stored
C21_UpdateLostToStaleWriteBack ==
  \A k \in Refreshes :
     LostUpdate(k) =>
        \E j \in Refreshes \ {k} :
           /\ WroteBack(j)
           /\ accounts = manager[j].read
           /\ ~Carries(getAccountById(manager[j].read, manager[k].accountId),
                       manager[k].update)

\* refreshAllAccounts returned after two refreshes returned true, each having
\* read the list before the other wrote it back, and the stored record of
\* one of the two accounts does not carry what its refresh wrote
C21_Witness ==
  /\ Called.op = "refreshAllAccounts"
  /\ Called.pc = "done"
  /\ \E k \in Refreshes, j \in Refreshes :
        /\ k # j
        /\ LostUpdate(k)
        /\ WroteBack(j)
        /\ manager[j].value = JsBoolean(TRUE)
        /\ Carries(getAccountById(accounts, manager[j].accountId), manager[j].update)
        /\ ~Carries(getAccountById(manager[j].read, manager[k].accountId),
                    manager[k].update)
        /\ ~Carries(getAccountById(manager[k].read, manager[j].accountId),
                    manager[j].update)

(***************************************************************************)
(* Properties of the pagination, of the Cubence reads and of auto-detect   *)
(***************************************************************************)
\* getUsageStats of OneApiAdapter awaits a page of the log
PageAwaited ==
  /\ call.adapter = OneApi
  /\ call.op = "getUsageStats"
  /\ call.pc = "/api/log/self"

\* the answer read last gave a log page: a 2xx response with success and data
PageRead ==
  /\ call.adapter = OneApi
  /\ call.op = "getUsageStats"
  /\ call.remote.kind = "response"
  /\ call.remote.status \in 200..299
  /\ call.remote.body.kind = "object"
  /\ call.remote.body.success = JsBoolean(TRUE)
  /\ call.remote.body.data.kind = "object"

\* logData.total || 0 of the page read last
TotalRead ==
  IF Truthy(Prop(call.remote.body.data, "total"))
  THEN call.remote.body.data.total.num ELSE 0

\* at most MAX_PAGES requests, asked for in order; when the cap is reached
\* the call resolves with the sums it has
CappedPagination ==
  /\ call.op = "getUsageStats" => call.requests <= MAX_PAGES
  /\ PagesInOrder
  /\ (PageRead /\ call.pc = "done") =>
        /\ UsageOfItems(call.usage.today_requests_count)
        /\ call.requests = MAX_PAGES \/ call.requests >= Ceil(TotalRead, DEFAULT_PAGE_SIZE)

\* C22 as claimed: at most 100 page requests whatever the server reports,
\* no further page is asked for once the accumulated item count has reached
\* the total the server reported, and at the cap the call resolves with the
\* sums so far
C22_StopsAtReportedTotal ==
  /\ CappedPagination
  /\ (PageRead /\ PageAwaited) => call.usage.today_requests_count < TotalRead

\* C22: the pagination always terminates: at most 100 page requests whatever
\* the server reports, no further page is asked for once the page read is
\* the last of ceil(total / 100) pages by the total reported with it, at the
\* cap the call resolves with the sums so far, and a call that awaits a page
\* settles in the end
C22_StopsAtLastPage ==
  /\ [](/\ CappedPagination
        /\ (PageRead /\ PageAwaited) =>
              call.requests - 1 < Ceil(TotalRead, DEFAULT_PAGE_SIZE))
  /\ (PageAwaited ~> call.pc = "done")

\* getUsageStats resolved at the cap of 100 requests against a server whose
\* total was always one item beyond the page asked for
C22_Witness ==
  /\ PageRead
  /\ call.pc = "done"
  /\ call.settled = "resolved"
  /\ call.requests = MAX_PAGES
  /\ TotalRead = DEFAULT_PAGE_SIZE * MAX_PAGES + 1

\* the reply to the pageFetchJson message reports a failure: the message was
\* rejected, or the reply has no true success
FallbackFailed ==
  \/ call.remote.kind = "reject"
  \/ ~Truthy(OptProp(call.remote, "success"))

\* the direct fetch is made first and at most once, the message at most
\* once and after it, and a read that made its fetch throws only when the
\* fallback reported failure
DirectFetchFirst ==
  /\ call.requests <= 1
  /\ call.messages <= 1
  /\ call.messages = 1 => call.requests = 1
  /\ (call.read = "throw" /\ call.requests = 1) =>
        call.messages = 1 /\ FallbackFailed
  /\ (call.read = "return" /\ call.messages = 0) => ResponseOk(call.remote)

\* C23 as claimed: in every read of CubenceAdapter the direct fetch is made
\* first and exactly once, the pageFetchJson message is sent at most once and
\* only after the direct fetch threw or answered non-2xx, and the read
\* throws only if the fallback reported failure
C23_FallbackAfterFailedFetch ==
  call.adapter = Cubence =>
     /\ DirectFetchFirst
     /\ call.read # "none" => call.requests = 1
     /\ call.pc = "pageFetchJson" =>
           call.remote.kind = "reject" \/ ~ResponseOk(call.remote)

\* C23: in every read of CubenceAdapter whose site URL parses the direct
\* fetch is made first and exactly once (a site URL that does not parse makes
\* the read throw before any request); the pageFetchJson message is sent at
\* most once and only after the direct fetch threw, answered non-2xx, or
\* answered 2xx with a body that is no JSON; the read throws only if the
\* fallback reported failure
C23_FallbackAfterFailedFetchOrParse ==
  call.adapter = Cubence =>
     /\ DirectFetchFirst
     /\ call.read # "none" =>
           \/ call.requests = 1
           \/ call.requests = 0 /\ call.messages = 0 /\ call.read = "throw"
     /\ call.pc = "pageFetchJson" =>
           \/ call.remote.kind = "reject"
           \/ ~ResponseOk(call.remote)
           \/ call.remote.body = Unparseable

\* getAccountBalance of Cubence resolved from the reply to pageFetchJson,
\* sent after the one direct fetch had failed
C23_Witness ==
  /\ call.adapter = Cubence
  /\ call.op = "getAccountBalance"
  /\ call.requests = 1
  /\ call.messages = 1
  /\ call.read = "return"
  /\ call.settled = "resolved"

\* autoDetectAccount of OneApiAdapter has returned after it knew the user id
AutoDetected ==
  /\ call.adapter = OneApi
  /\ call.op = "autoDetectAccount"
  /\ call.tokenPc # "none"
  /\ call.pc = "done"

\* the site-status step gave nothing: its request failed, or the answer was
\* no status
StatusStepFailed == call.statusPc = "fulfilled" /\ call.siteStatus = JsNull

\* the result is a failure with a classified detailedError
ClassifiedFailure ==
  /\ call.settled = "resolved"
  /\ ~call.value.success
  /\ NonEmptyText(call.value.error)
  /\ call.value.detailedError.kind = "object"

\* the token step and the status step are started together
StartedTogether ==
  (call.adapter = OneApi /\ call.op = "autoDetectAccount") =>
     /\ (call.tokenPc = "none") = (call.statusPc = "none")
     /\ call.pc = "Promise.all" => call.tokenPc # "none"

\* C26 as claimed: once the user id is known the token step and the status
\* step are both started before either is awaited; a failure of either makes
\* autoDetectAccount resolve to success=false with a classified
\* detailedError, and success=true is returned only when both succeeded
C26_EitherFailureFails ==
  /\ StartedTogether
  /\ AutoDetected =>
        /\ (call.tokenPc = "rejected" \/ StatusStepFailed) => ClassifiedFailure
        /\ call.value.success =>
              call.tokenPc = "fulfilled" /\ call.statusPc = "fulfilled" /\ ~StatusStepFailed

\* C26: once the user id is known the token step and the status step are
\* both started before either is awaited; a failure of the token step makes
\* autoDetectAccount resolve to success=false with a classified
\* detailedError; the status step never fails the operation, it gives null
\* instead and the exchange rate is taken from that; success=true is
\* returned exactly when both steps have settled and the token step gave a
\* user name and a token
C26_TokenFailureFails ==
  /\ StartedTogether
  /\ call.statusPc # "rejected"
  /\ AutoDetected =>
        /\ call.tokenPc = "rejected" => ClassifiedFailure
        /\ ~call.value.success => ClassifiedFailure
        /\ call.value.success =
              /\ call.tokenPc = "fulfilled"
              /\ call.statusPc = "fulfilled"
              /\ Truthy(call.tokenInfo.username)
              /\ Truthy(call.tokenInfo.access_token)
        /\ call.value.success =>
              call.value.data.exchangeRate = extractDefaultExchangeRate(call.siteStatus)

\* autoDetectAccount of OneApiAdapter returned success although the status
\* step had failed
C26_Witness ==
  /\ AutoDetected
  /\ StatusStepFailed
  /\ call.value.success

(***************************************************************************)
(* Properties of the background script                                     *)
(***************************************************************************)
\* the handlers that have sent their response
Answered == {i \in 1..Len(background.handlers) : background.handlers[i].responses > 0}

\* the window the handler i created is closed and tempWindows has no entry
\* of it
Released(i) ==
  LET w == background.handlers[i].created
  IN w # 0 =>
       /\ w \notin DOMAIN background.windows
       /\ \A k \in 1..Len(background.tempWindows) : background.tempWindows[k].value # w

\* C24: once the handler of a pageFetchJson or autoDetectSite request has
\* sent its response, success or failure, the window it created is closed
\* and tempWindows has no entry of it
C24_WindowReleasedOnceAnswered == \A i \in Answered : Released(i)

\* the handler i is there and P holds of it
Handler(i, P(_)) == i \in 1..Len(background.handlers) /\ P(background.handlers[i])

\* the page-load timeout of the handler ran out before its tab was seen
\* complete
TimedOut(h) == h.timer = "fired"

\* C25: a pageFetchJson or autoDetectSite request never hangs on the page
\* load: the wait settles; when the timeout runs out before the tab is seen
\* complete the wait fails and exactly one response, a failure, is sent, and
\* the polling of the tab status stops in the end; once the tab was seen
\* complete the timeout does not fire
C25_PageLoadWaitBounded ==
  /\ [](\A i \in 1..MaxRequests :
          Handler(i, LAMBDA h : /\ h.responses <= 1
                                /\ TimedOut(h) => h.wait = "rejected"
                                /\ (TimedOut(h) /\ h.responses = 1) => ~h.success)
          \/ i > Len(background.handlers))
  /\ [][\A i \in 1..Len(background.handlers) :
          background.handlers[i].grace # "none" =>
             background'.handlers[i].timer = background.handlers[i].timer]_vars
  /\ \A i \in 1..MaxRequests :
        /\ Handler(i, LAMBDA h : h.pc = "wait") ~> Handler(i, LAMBDA h : h.pc # "wait")
        /\ Handler(i, TimedOut) ~> Handler(i, LAMBDA h : h.responses = 1 /\ ~h.success)
        /\ Handler(i, TimedOut) ~> Handler(i, LAMBDA h : ~h.polling)

(***************************************************************************)
(* Properties of failed registrations and of the detected site type        *)
(***************************************************************************)
\* getSupportedSiteTypes(): the keys of adaptersBySiteType; sorting makes the
\* answer a function of this set
getSupportedSiteTypes(reg) ==
  {reg.adaptersBySiteType[i].key : i \in 1..Len(reg.adaptersBySiteType)}

\* C27: a registerAdapter call that throws leaves the registry as it was
\* before the call: getAllAdapters, getSupportedSiteTypes and getAdapter give
\* the same answers as before, also when the failure is a site-type conflict
\* on the second or a later entry of supportedSiteTypes
C27_FailedRegistrationLeavesRegistry ==
  [][ (history'.registerCalls = history.registerCalls + 1
         /\ last'.outcome = "AdapterRegistrationError") =>
        /\ getAllAdapters(registry') = getAllAdapters(registry)
        /\ getSupportedSiteTypes(registry') = getSupportedSiteTypes(registry)
        /\ \A s \in SiteTypeInputs :
             getAdapter(registry', s) = getAdapter(registry, s) ]_vars

\* the adapter whose probe matched in the detectSiteType call that finished
MatchedAdapter(d) == d.log[Len(d.log)][1]

\* C28: whenever detectSiteType(url) returns a non-null value t, getAdapter(t)
\* returns the adapter whose probe matched, in every registry state reached
\* by registerAdapter calls
C28_DetectedTypeRoutesToDetector ==
  (detect.pc = "done" /\ detect.result # <<>>) =>
     getAdapter(registry, JsString(detect.result)) = MatchedAdapter(detect)

(***************************************************************************)
(* Properties of the write-back of a refresh and of deleted accounts       *)
(***************************************************************************)
\* the refreshAccount call k has returned true
RefreshedTrue(k) ==
  /\ manager[k].op = "refreshAccount"
  /\ manager[k].pc = "done"
  /\ manager[k].value = JsBoolean(TRUE)

\* C29: refreshAccount resolves to true only if the storage write of the
\* refreshed data succeeded: the account is then in storage and its record
\* carries health_status "healthy" and the values fetched by this refresh
\* (no other writer running); when the write-back fails the result is false
C29_TrueOnlyAfterWriteBack ==
  \A k \in 1..Len(manager) :
     /\ RefreshedTrue(k) =>
          /\ manager[k].saved = JsBoolean(TRUE)
          /\ manager[k].update.health_status = "healthy"
          /\ Carries(getAccountById(accounts, manager[k].accountId), manager[k].update)
     /\ (manager[k].op = "refreshAccount" /\ manager[k].pc = "done"
           /\ manager[k].saved = JsBoolean(FALSE)) =>
          manager[k].value = JsBoolean(FALSE)

\* the deleteAccount call and the refreshAccount call started before it
\* completed have all finished
AllFinished ==
  /\ Len(manager) = 2
  /\ \A k \in 1..Len(manager) : manager[k].pc = "done"

\* the deleteAccount call removed the account: it resolved to true
Deleted(k) ==
  /\ manager[k].op = "deleteAccount"
  /\ manager[k].settled = "resolved"
  /\ manager[k].value = JsBoolean(TRUE)

\* C30: an account removed by deleteAccount stays removed: for every
\* interleaving of deleteAccount(id) with a refreshAccount call, for the same
\* or another account, started before the delete completed, the id is absent
\* from storage once all of them have finished
C30_DeletedStaysDeleted ==
  \A k \in 1..Len(manager) :
     (AllFinished /\ Deleted(k)) =>
        getAccountById(accounts, manager[k].accountId) = JsNull

====
